---- MODULE Spec2Model ----
(***************************************************************************)
(* Model of the v2ex_mirror synchronisation engine                         *)
(* (scripts/fetch/run.mjs and the backfill script).                        *)
(*                                                                         *)
(* Time is in milliseconds, as Date.now() gives it; list timestamps are   *)
(* in seconds, as the remote API gives them.  JSON values are tagged       *)
(* records [t, v]; a missing or null field is Absent and a field whose     *)
(* Number(...) is NaN is NaN.                                              *)
(***************************************************************************)
EXTENDS Integers, Sequences, FiniteSets, TLC

(* ---------------------------------------------------------------- bounds *)
MaxInterval == 2
MaxRetries == 3
MaxCalls == 2
MaxTicks == 2
MaxConcurrency == 2
MaxId == 2
MaxFaults == 3
MaxPoolLimit == 2
MaxItems == 3
MaxNodes == 2
MaxPages == 2
MaxTopics == 2
MaxMergeLen == 2
\* the comment page size and page limit of fetchReplies, 50 and 50 in the
\* script, scaled down
PageSize == 2
MaxReplyPages == 2

(* ------------------------------------------------------ program constants *)
SyncRetries == 3
BackoffFactor == 2

(* ------------------------------------------------------- JS number values *)
\* Absent stands for null/undefined, NaN for a value Number() maps to NaN.
Absent == -1000001
NaN == -1000002

IsNum(x) == x # Absent /\ x # NaN

\* a ?? b
Coalesce(a, b) == IF a # Absent THEN a ELSE b

Max(a, b) == IF a >= b THEN a ELSE b

\* Number(x): undefined gives NaN
NumberOf(x) == IF x = Absent THEN NaN ELSE x

\* Number.isFinite
IsFinite(x) == x # NaN /\ x # Absent

\* JS comparisons: false when a side is NaN
JsGe(a, b) == a # NaN /\ b # NaN /\ a >= b
JsLe(a, b) == a # NaN /\ b # NaN /\ a <= b
JsGt(a, b) == a # NaN /\ b # NaN /\ a > b

\* a * b in JS numbers
JsTimes(a, b) == IF a = NaN \/ b = NaN THEN NaN ELSE a * b

\* Math.max(a, b)
JsMax(a, b) == IF a = NaN \/ b = NaN THEN NaN ELSE Max(a, b)

(* ------------------------------------------------------------ JSON values *)
Arr(seq) == [t |-> "arr", v |-> seq]
Null == [t |-> "null", v |-> <<>>]
Obj == [t |-> "obj", v |-> <<>>]

\* x ?? []
OrEmpty(j) == IF j.t = "null" THEN Arr(<<>>) ELSE j

\* [...x] throws a TypeError unless x is iterable
Iterable(j) == j.t = "arr"

\* Array.isArray(x)
IsArray(j) == j.t = "arr"

\* a topic as the list endpoints give it
Topic(id, replies, lm, lt, cr) ==
    [id |-> id, replies |-> replies, last_modified |-> lm, last_touched |-> lt,
     created |-> cr]

Range(seq) == {seq[i] : i \in 1..Len(seq)}

\* array.slice(0, n)
SliceTo(seq, n) ==
    IF n = NaN \/ n <= 0 THEN <<>>
    ELSE IF n >= Len(seq) THEN seq
    ELSE SubSeq(seq, 1, n)

(* ------------------------------------------------------------- variables *)
VARIABLES
    cfg,            \* CONFIG
    clock,          \* Date.now()
    ticks,          \* number of delays the scheduler has injected so far
    nextAllowedAt,  \* the rate limiter's gate
    net,            \* the fetchJsonWithRetry call in progress
    inflight,       \* outbound requests sent and not yet answered
    hist,           \* history of the attempts made (observation only)
    caller,         \* the code awaiting the call in progress
    faultsLeft,     \* failures the environment may still inject
    files,          \* the data directory: path -> content
    wr,             \* the writeJsonAtomic call in progress
    out,            \* what the operation under observation last returned
    run,            \* main(): its position and its local variables
    remote          \* the remote site: how much activity its topics have seen

netVars == <<nextAllowedAt, net, inflight, hist>>
diskVars == <<files, wr>>
vars == <<cfg, clock, ticks, nextAllowedAt, net, inflight, hist, caller,
          faultsLeft, files, wr, out, run, remote>>

NoOut == [op |-> "none"]

(* ------------------------------------------------------------------ time *)
\* the lists carry their times in seconds, Date.now() is in milliseconds
MsPerSec == 1000
DayMs == 24 * 60 * 60 * 1000

\* the instant the runs start at, and the second that lies days before it
BaseNow == 3 * DayMs
TsAgo(days) == (BaseNow - days * DayMs) \div MsPerSec

(* ------------------------------------------------------------------ URLs *)
\* endpoints: <<kind, id, page>>
UrlLatest == <<"latest", 0, 0>>
UrlHot == <<"hot", 0, 0>>
UrlNodes == <<"nodes", 0, 0>>
UrlNone == <<"none", 0, 0>>

(* ------------------------------------------------- fetchJsonWithRetry ---- *)
NoError == "none"
RequestFailed == "Request failed"
AttemptErrors == {"HTTP status", "transport", "bad body"}

NoBody == [t |-> "none", v |-> <<>>]

NetIdle ==
    [pc |-> "idle", url |-> UrlNone, i |-> 0, lastError |-> NoError,
     result |-> NoBody, error |-> NoError, wakeAt |-> 0]

HistInit ==
    [calls |-> 0, attempts |-> 0, fails |-> 0, lastFail |-> NoError, sent |-> 0,
     sentTopic |-> 0, sentReplies |-> 0, failsAll |-> 0,
     gateNow |-> 0, issuedAt |-> 0, issuedGate |-> 0, prevIssuedGate |-> 0]

\* for (let i = 0; i < CONFIG.retries; i += 1) ... throw lastError ?? new Error(..)
LoopHeadUnbounded(n) == [n EXCEPT !.pc = "wait"]

LoopHead(n) ==
    IF cfg.retries # NaN /\ n.i < cfg.retries
    THEN [n EXCEPT !.pc = "wait"]
    ELSE [n EXCEPT !.pc = "err",
                   !.error = IF n.lastError # NoError THEN n.lastError
                             ELSE RequestFailed]

\* the call itself: lastError = null, i = 0
NetStart(url) ==
    LoopHead([NetIdle EXCEPT !.url = url])

\* nextAllowedAt = Date.now() + CONFIG.intervalMs
GateAfterNoInterval(now) == now

GateAfter(now) == now + cfg.intervalMs

\* const backoff = CONFIG.intervalMs * (i + 1) * 2
Backoff(i) == cfg.intervalMs * (i + 1) * BackoffFactor

\* catch (error) { lastError = error; ... }
KeepFirstError(prev, error) == IF prev # NoError THEN prev ELSE error

CatchError(prev, error) == error

\* waitRateLimit, up to its await: now < nextAllowedAt ? sleep : set the gate
WaitRateLimit ==
    /\ net.pc = "wait"
    /\ IF clock < nextAllowedAt
       THEN /\ net' = [net EXCEPT !.pc = "sleep",
                                  !.wakeAt = clock + (nextAllowedAt - clock)]
            /\ UNCHANGED <<nextAllowedAt, hist>>
       ELSE /\ nextAllowedAt' = GateAfter(clock)
            /\ net' = [net EXCEPT !.pc = "send"]
            /\ hist' = [hist EXCEPT !.gateNow = clock]
    /\ UNCHANGED <<cfg, clock, ticks, inflight, caller, faultsLeft, diskVars, out, run, remote>>

\* the sleep of waitRateLimit ends (not before its time), the gate is set
WaitRateLimitWake ==
    /\ net.pc = "sleep"
    /\ clock' = Max(clock, net.wakeAt)
    /\ nextAllowedAt' = GateAfter(clock')
    /\ net' = [net EXCEPT !.pc = "send"]
    /\ hist' = [hist EXCEPT !.gateNow = clock']
    /\ UNCHANGED <<cfg, ticks, inflight, caller, faultsLeft, diskVars, out, run, remote>>

\* the requests in flight once fetch(url, ...) is called and awaited
IssuedPerWorker(n) == n + cfg.concurrency

Issued(n) == n + 1

\* fetch(url, ...): the request leaves
Send ==
    /\ net.pc = "send"
    /\ inflight' = Issued(inflight)
    /\ net' = [net EXCEPT !.pc = "inflight"]
    /\ hist' = [hist EXCEPT !.attempts = @ + 1,
                            !.sent = @ + 1,
                            !.sentTopic = IF net.url[1] = "topic" THEN @ + 1 ELSE @,
                            !.sentReplies =
                                IF net.url[1] = "replies" THEN @ + 1 ELSE @,
                            !.issuedAt = clock,
                            !.issuedGate = hist.gateNow,
                            !.prevIssuedGate = hist.issuedGate]
    /\ UNCHANGED <<cfg, clock, ticks, nextAllowedAt, caller, faultsLeft, diskVars, out, run, remote>>

\* a topic of the remote site after its topics have seen epoch new replies;
\* a higher id is the more recently touched one
RemoteTopicAt(id, epoch) ==
    Topic(id, epoch, TsAgo(1) + id + epoch, TsAgo(1) + id + epoch, TsAgo(2))

RemoteTopic(id) == RemoteTopicAt(id, remote)

\* a topic nobody has touched for two days
StaleTopic(id) == Topic(id, 0, TsAgo(2), TsAgo(2), TsAgo(2))

\* a page of a node's topics: nothing, an object, or one or two topics, one
\* of which may carry the id 0
NodePageBodies ==
    {Arr(<<>>), Obj}
    \cup {Arr(<<Topic(a, 0, 0, 0, 0)>>) : a \in 0..MaxId}
    \cup {Arr(<<Topic(a, 0, 0, 0, 0), Topic(b, 0, 0, 0, 0)>>) :
              a \in 1..MaxId, b \in 0..MaxId}

\* page p of a topic's comments with n comments; the v2 API wraps them in an
\* object, {result: [...]}
PageItems(p, n) == [k \in 1..n |-> p * 10 + k]

ObjResult(items) == [t |-> "objresult", v |-> items]

ReplyPageBodies(p) ==
    {Arr(PageItems(p, n)) : n \in 0..PageSize}
    \cup {ObjResult(PageItems(p, n)) : n \in 1..PageSize}
    \cup {Obj, Null}

\* the bodies the remote can answer a URL with: a JSON array as the API
\* documents it, or JSON of another shape
NetBodies(url) ==
    IF url[1] = "latest"
    THEN {Arr(<<RemoteTopic(1)>>), Null, Obj}
    ELSE IF url[1] = "hot"
    THEN {Arr(<<RemoteTopic(id)>>) : id \in 1..MaxId} \cup {Arr(<<>>), Obj}
    ELSE IF url[1] = "nodes"
    THEN {Arr(<<>>)}
    ELSE IF url[1] = "topic"
    THEN {Arr(<<RemoteTopic(url[2])>>), Arr(<<>>)}
    ELSE IF url[1] = "replies"
    THEN {Arr([i \in 1..remote |-> i]), Null}
    ELSE IF url[1] = "node"
    THEN NodePageBodies
    ELSE IF url[1] = "v2replies"
    THEN ReplyPageBodies(url[3])
    ELSE {}

\* response.ok and response.json() parsed: return the body
RespondOk ==
    /\ net.pc = "inflight"
    /\ \E body \in NetBodies(net.url) :
        net' = [net EXCEPT !.pc = "ok", !.result = body]
    /\ inflight' = inflight - 1
    /\ UNCHANGED <<cfg, clock, ticks, nextAllowedAt, hist, caller, faultsLeft,
                   diskVars, out, run, remote>>

\* non-2xx status, transport error or unparsable body: caught, back off
RespondFail ==
    /\ net.pc = "inflight"
    /\ faultsLeft > 0
    /\ faultsLeft' = faultsLeft - 1
    /\ \E e \in AttemptErrors :
        /\ net' = [net EXCEPT !.pc = "backoff",
                              !.lastError = CatchError(net.lastError, e),
                              !.wakeAt = clock + Backoff(net.i)]
        /\ hist' = [hist EXCEPT !.fails = @ + 1, !.failsAll = @ + 1,
                                !.lastFail = e]
    /\ inflight' = inflight - 1
    /\ UNCHANGED <<cfg, clock, ticks, nextAllowedAt, caller, diskVars, out, run, remote>>

\* the backoff sleep ends: i += 1 and the loop head
BackoffWake ==
    /\ net.pc = "backoff"
    /\ clock' = Max(clock, net.wakeAt)
    /\ net' = LoopHead([net EXCEPT !.i = @ + 1])
    /\ UNCHANGED <<cfg, ticks, nextAllowedAt, inflight, hist, caller, faultsLeft,
                   diskVars, out, run, remote>>

NetStep ==
    \/ WaitRateLimit
    \/ WaitRateLimitWake
    \/ Send
    \/ RespondOk
    \/ RespondFail
    \/ BackoffWake

\* the scheduler or the machine delays the task: time passes
Tick ==
    /\ ticks < MaxTicks
    /\ ticks' = ticks + 1
    /\ clock' = clock + 1
    /\ UNCHANGED <<cfg, netVars, caller, faultsLeft, diskVars, out, run, remote>>

(* ------------------------------------------------------ the data files -- *)
\* A path is <<kind, id, suffix>>; suffix "" is the document, ".tmp" the
\* temporary file writeJsonAtomic writes beside it.
TopicIds == 1..MaxId

DocKeys ==
    {<<"latest", 0>>, <<"hot", 0>>, <<"hot_pool", 0>>, <<"nodes", 0>>,
     <<"state", 0>>, <<"last_run", 0>>, <<"backfill_last_run", 0>>}
    \cup {<<"topic", id>> : id \in TopicIds}
    \cup {<<"replies", id>> : id \in TopicIds}

PathOf(key) == <<key[1], key[2], "">>

Paths == {<<k[1], k[2], sfx>> : k \in DocKeys, sfx \in {"", ".tmp"}}

\* the content of a path: missing, a complete JSON text, or a cut-off one
Missing == [st |-> "missing", data |-> NoBody]
Full(d) == [st |-> "full", data |-> d]
Partial(d) == [st |-> "partial", data |-> d]

NoFiles == [p \in Paths |-> Missing]

\* readJson: the parsed content, the fallback when the file is missing or
\* JSON.parse throws
ReadJson(path, fallback) ==
    IF files[path].st = "full" THEN files[path].data ELSE fallback

(* ---------------------------------------------------- writeJsonAtomic ---- *)
WrIdle == [pc |-> "idle", path |-> <<"none", 0, "">>, data |-> NoBody,
           before |-> Missing]

\* const tmp = `${file}.tmp`
TmpPathInPlace(path) == path

TmpPath(path) == <<path[1], path[2], ".tmp">>

\* the call: nothing is touched before the first await
WrStart(path, data) ==
    [pc |-> "open", path |-> path, data |-> data, before |-> files[path]]

\* fs.mkdir(dir) and fs.writeFile opening (truncating) the temporary file
WrOpen ==
    /\ wr.pc = "open"
    /\ files' = [files EXCEPT ![TmpPath(wr.path)] = Partial(wr.data)]
    /\ wr' = [wr EXCEPT !.pc = "data"]
    /\ UNCHANGED <<cfg, clock, ticks, netVars, caller, faultsLeft, out, run, remote>>

\* fs.writeFile has written the whole text
WrData ==
    /\ wr.pc = "data"
    /\ files' = [files EXCEPT ![TmpPath(wr.path)] = Full(wr.data)]
    /\ wr' = [wr EXCEPT !.pc = "rename"]
    /\ UNCHANGED <<cfg, clock, ticks, netVars, caller, faultsLeft, out, run, remote>>

\* fs.rename(tmp, file): atomic replace; renaming a path onto itself does nothing
WrRename ==
    /\ wr.pc = "rename"
    /\ files' = IF TmpPath(wr.path) = wr.path THEN files
                ELSE [files EXCEPT ![wr.path] = files[TmpPath(wr.path)],
                                   ![TmpPath(wr.path)] = Missing]
    /\ wr' = [wr EXCEPT !.pc = "ok"]
    /\ UNCHANGED <<cfg, clock, ticks, netVars, caller, faultsLeft, out, run, remote>>

\* mkdir, writeFile or rename rejects: the call throws where it stands
WrFail ==
    /\ wr.pc \in {"open", "data", "rename"}
    /\ faultsLeft > 0
    /\ faultsLeft' = faultsLeft - 1
    /\ wr' = [wr EXCEPT !.pc = "err"]
    /\ UNCHANGED <<cfg, clock, ticks, netVars, caller, files, out, run, remote>>

WrStep ==
    \/ WrOpen
    \/ WrData
    \/ WrRename
    \/ WrFail

(* ------------------------------------------------------- the hot pool ---- *)
TopicFreshnessMax(topic) ==
    LET stamps == {x \in {topic.last_touched, topic.last_modified, topic.created} :
                      x # Absent /\ x # NaN}
    IN IF stamps = {} THEN 0
       ELSE CHOOSE x \in stamps : \A y \in stamps : x >= y

\* Number(topic?.last_touched ?? topic?.last_modified ?? topic?.created ?? 0)
topicFreshness(topic) ==
    NumberOf(Coalesce(topic.last_touched,
             Coalesce(topic.last_modified, Coalesce(topic.created, 0))))

\* const id = Number(item?.id); if (!Number.isFinite(id) || id <= 0) continue
ValidId(item) == IsFinite(NumberOf(item.id)) /\ NumberOf(item.id) > 0

IndexOfId(acc, id) ==
    LET hits == {i \in 1..Len(acc) : NumberOf(acc[i].id) = id}
    IN IF hits = {} THEN 0 ELSE CHOOSE i \in hits : TRUE

\* the Map of mergeTopicLists, in insertion order of its keys
MergeStepAppend(acc, item) ==
    IF ~ValidId(item) THEN acc ELSE Append(acc, item)

MergeStepKeepFirst(acc, item) ==
    IF ~ValidId(item) \/ IndexOfId(acc, NumberOf(item.id)) # 0 THEN acc
    ELSE Append(acc, item)

MergeStep(acc, item) ==
    IF ~ValidId(item) THEN acc
    ELSE LET at == IndexOfId(acc, NumberOf(item.id))
         IN IF at = 0 THEN Append(acc, item)
            ELSE IF JsGe(topicFreshness(item), topicFreshness(acc[at]))
                 THEN [acc EXCEPT ![at] = item]
                 ELSE acc

RECURSIVE MergeFold(_, _)
MergeFold(items, acc) ==
    IF items = <<>> THEN acc
    ELSE MergeFold(Tail(items), MergeStep(acc, Head(items)))

\* .sort((x, y) => topicFreshness(y) - topicFreshness(x)): stable, descending
RECURSIVE InsertDesc(_, _)
InsertDesc(sorted, x) ==
    IF sorted = <<>> THEN <<x>>
    ELSE IF topicFreshness(Head(sorted)) >= topicFreshness(x)
         THEN <<Head(sorted)>> \o InsertDesc(Tail(sorted), x)
         ELSE <<x>> \o sorted

RECURSIVE StableSortDesc(_, _)
StableSortDesc(items, sorted) ==
    IF items = <<>> THEN sorted
    ELSE StableSortDesc(Tail(items), InsertDesc(sorted, Head(items)))

Orderings(seq) ==
    {[i \in 1..Len(seq) |-> seq[f[i]]] :
        f \in {g \in [1..Len(seq) -> 1..Len(seq)] :
                  \A i, j \in 1..Len(seq) : g[i] = g[j] => i = j}}

SortOutcomesUnsorted(seq) == {seq}

\* The comparator yields NaN when a freshness is NaN; it is then no
\* consistent comparator and the order of the result is implementation-defined.
SortOutcomes(seq) ==
    IF \A i \in 1..Len(seq) : topicFreshness(seq[i]) # NaN
    THEN {StableSortDesc(seq, <<>>)}
    ELSE Orderings(seq)

\* the filter of updateHotPool
PruneKeepsStrict(item, now, ttlMs) ==
    LET ts == JsTimes(topicFreshness(item), MsPerSec)
    IN IF ~IsFinite(ts) \/ ts <= 0 THEN TRUE ELSE now - ts < ttlMs

PruneKeepsNoGuard(item, now, ttlMs) ==
    LET ts == JsTimes(topicFreshness(item), MsPerSec)
    IN IF ~IsFinite(ts) THEN TRUE ELSE now - ts <= ttlMs

PruneKeeps(item, now, ttlMs) ==
    LET ts == JsTimes(NumberOf(Coalesce(item.last_touched,
                      Coalesce(item.last_modified, Coalesce(item.created, 0)))),
                      MsPerSec)
    IN IF ~IsFinite(ts) \/ ts <= 0 THEN TRUE ELSE now - ts <= ttlMs

RECURSIVE Prune(_, _, _)
Prune(items, now, ttlMs) ==
    IF items = <<>> THEN <<>>
    ELSE IF PruneKeeps(Head(items), now, ttlMs)
         THEN <<Head(items)>> \o Prune(Tail(items), now, ttlMs)
         ELSE Prune(Tail(items), now, ttlMs)

\* CONFIG.hotPoolTtlDays * 24 * 60 * 60 * 1000
HotPoolTtlMs == cfg.hotPoolTtlDays * DayMs

\* pruned.slice(0, Math.max(1, CONFIG.hotPoolLimit))
Limit(pruned) == SliceTo(pruned, JsMax(1, cfg.hotPoolLimit))

HotPoolPath == <<"hot_pool", 0, "">>

(* ------------------------------------------------ the item documents ---- *)
HourMs == 60 * 60 * 1000

\* An optional object is a sequence of none or one element.  A document is
\* {topic, meta: {fetched_at, list_snapshot}}; fetched_at holds the instant
\* its ISO text denotes (toISOString and Date.parse keep milliseconds), NaN
\* for a text Date.parse cannot read, Absent when the field is missing.
TopicDocNoSnapshot(topic, fetchedAt, snapshot) ==
    [t |-> "doc",
     v |-> <<[topic |-> topic, fetched_at |-> fetchedAt, list_snapshot |-> <<>>]>>]

TopicDoc(topic, fetchedAt, snapshot) ==
    [t |-> "doc",
     v |-> <<[topic |-> topic, fetched_at |-> fetchedAt,
              list_snapshot |-> snapshot]>>]

Snapshot(id, replies, lm) == [id |-> id, replies |-> replies, last_modified |-> lm]

\* JSON.stringify writes a NaN number as null
JsonNumber(x) == IF x = NaN THEN Absent ELSE x

\* existingTopicDoc?.topic
DocTopic(doc) == IF doc.t = "doc" THEN doc.v[1].topic ELSE <<>>

\* Date.parse(existingTopicDoc?.meta?.fetched_at ?? "")
DocFetchedAt(doc) ==
    IF doc.t = "doc" THEN NumberOf(doc.v[1].fetched_at) ELSE NaN

\* existingTopicDoc?.meta?.list_snapshot ?? {}
DocSnapshot(doc) ==
    IF doc.t = "doc" /\ doc.v[1].list_snapshot # <<>>
    THEN doc.v[1].list_snapshot[1]
    ELSE Snapshot(Absent, Absent, Absent)

\* a === b on numbers: NaN equals nothing
JsSame(a, b) == a # NaN /\ b # NaN /\ a = b

DecideSnapshotOnly(doc, listSnapshot, now, ttlMs) ==
    LET prev == DocSnapshot(doc)
    IN ~(/\ JsSame(NumberOf(Coalesce(prev.replies, -1)),
                   NumberOf(Coalesce(listSnapshot.replies, -2)))
         /\ JsSame(NumberOf(Coalesce(prev.last_modified, -1)),
                   NumberOf(Coalesce(listSnapshot.last_modified, -2))))

DecideRefreshAlways(doc, listSnapshot, now, ttlMs) == TRUE

DecideNoTtl(doc, listSnapshot, now, ttlMs) ==
    IF DocTopic(doc) = <<>> THEN TRUE
    ELSE IF ~IsFinite(DocFetchedAt(doc)) THEN TRUE
    ELSE DecideSnapshotOnly(doc, listSnapshot, now, ttlMs)

DecideTtlInclusive(doc, listSnapshot, now, ttlMs) ==
    IF DocTopic(doc) = <<>> THEN TRUE
    ELSE IF ~IsFinite(DocFetchedAt(doc)) THEN TRUE
    ELSE IF now - DocFetchedAt(doc) >= ttlMs THEN TRUE
    ELSE DecideSnapshotOnly(doc, listSnapshot, now, ttlMs)

decideRefreshTopic(doc, listSnapshot, now, ttlMs) ==
    IF DocTopic(doc) = <<>> THEN TRUE
    ELSE IF ~IsFinite(DocFetchedAt(doc)) THEN TRUE
    ELSE IF now - DocFetchedAt(doc) > ttlMs THEN TRUE
    ELSE LET prev == DocSnapshot(doc)
             sameReplies ==
                 JsSame(NumberOf(Coalesce(prev.replies, -1)),
                        NumberOf(Coalesce(listSnapshot.replies, -2)))
             sameTouched ==
                 JsSame(NumberOf(Coalesce(prev.last_modified, -1)),
                        NumberOf(Coalesce(listSnapshot.last_modified, -2)))
         IN ~(sameReplies /\ sameTouched)

\* CONFIG.refreshTtlHours * 60 * 60 * 1000
RefreshTtlMs == cfg.refreshTtlHours * HourMs

(* ------------------------------------------------------------- main() ---- *)
ListNames == {"latest", "hot", "nodes"}
ListUrl(name) == <<name, 0, 0>>
ListPath(name) == <<name, 0, "">>
TopicUrl(id) == <<"topic", id, 0>>
RepliesUrl(id) == <<"replies", id, 0>>
TopicPath(id) == <<"topic", id, "">>
RepliesPath(id) == <<"replies", id, "">>
StatePath == <<"state", 0, "">>
LastRunPath == <<"last_run", 0, "">>

NoListOutcome == [status |-> "none", count |-> 0, error |-> NoError]

ReportInit(startedAt) ==
    [started_at |-> startedAt, finished_at |-> Absent, config |-> cfg,
     lists |-> [n \in ListNames \cup {"hot_pool"} |-> NoListOutcome],
     candidates |-> 0, refreshed |-> 0, skipped |-> 0, failed |-> <<>>]

RunNone ==
    [pc |-> "none", sub |-> "call", exit |-> 0, n |-> 0,
     previousState |-> Obj, report |-> ReportInit(0),
     fallback |-> Null, latest |-> Null, hot |-> Null, hotPool |-> Null,
     prevPool |-> Null, merged |-> <<>>, pruned |-> <<>>, poolNow |-> 0,
     candidates |-> <<>>, idx |-> 0, now |-> 0,
     existingTopicDoc |-> Null, existingRepliesDoc |-> Null,
     listSnapshot |-> Snapshot(0, 0, 0), shouldRefreshTopic |-> FALSE,
     topic |-> <<>>, visited |-> <<>>, lastPhase |-> "none"]

\* main().catch: process.exitCode = 1
Abort(r) == [r EXCEPT !.pc = "aborted", !.exit = 1]

\* the process starts: main() up to the first list
MainStart ==
    /\ run.pc = "Start"
    /\ run' = [run EXCEPT !.pc = "ListLatest", !.sub = "call",
                          !.previousState = ReadJson(StatePath, Obj),
                          !.report = ReportInit(clock)]
    /\ UNCHANGED <<cfg, clock, ticks, netVars, caller, faultsLeft, diskVars,
                   out, remote>>

\* ensureDirs rejects: main() ends before it has fetched anything
MainStartFail ==
    /\ run.pc = "Start"
    /\ faultsLeft > 0
    /\ faultsLeft' = faultsLeft - 1
    /\ run' = Abort(run)
    /\ UNCHANGED <<cfg, clock, ticks, netVars, caller, diskVars, out, remote>>

ListPcs == {"ListLatest", "ListHot", "ListNodes"}
ListNameOf(pc) ==
    IF pc = "ListLatest" THEN "latest" ELSE IF pc = "ListHot" THEN "hot" ELSE "nodes"

\* Array.isArray(x) ? x.length : 0
CountOf(j) == IF IsArray(j) THEN Len(j.v) ELSE 0

\* what main() does with the value fetchAndPersistList returns
AfterListStraightToItems(r, value) ==
    [r EXCEPT !.pc = "CandidateBuild", !.sub = "call", !.latest = value]

AfterList(r, value) ==
    IF r.pc = "ListLatest"
    THEN [r EXCEPT !.pc = "ListHot", !.sub = "call", !.latest = value]
    ELSE IF r.pc = "ListHot"
    THEN [r EXCEPT !.pc = "PoolMerge", !.sub = "call", !.hot = value]
    ELSE [r EXCEPT !.pc = "CandidateBuild", !.sub = "call"]

ListFetchedOutcome(data, url) ==
    [status |-> "fetched", count |-> CountOf(data), error |-> NoError]

ListFallbackAsFetched(fallback, error) ==
    [status |-> "fetched", count |-> 0, error |-> NoError]

ListFallbackOutcome(fallback, error) ==
    [status |-> "fallback", count |-> CountOf(fallback), error |-> error]

\* fetchAndPersistList: read the fallback, start the fetch
ListFetch ==
    /\ run.pc \in ListPcs
    /\ run.sub = "call"
    /\ net.pc = "idle"
    /\ run' = [run EXCEPT !.sub = "net",
                          !.fallback = ReadJson(ListPath(ListNameOf(run.pc)),
                                                Arr(<<>>))]
    /\ net' = NetStart(ListUrl(ListNameOf(run.pc)))
    /\ hist' = [hist EXCEPT !.calls = @ + 1, !.attempts = 0, !.fails = 0,
                            !.lastFail = NoError]
    /\ UNCHANGED <<cfg, clock, ticks, nextAllowedAt, inflight, caller, faultsLeft,
                   diskVars, out, remote>>

\* the fetch is over: write the data, or fall back
ListFetched ==
    /\ run.pc \in ListPcs
    /\ run.sub = "net"
    /\ net.pc \in {"ok", "err"}
    /\ IF net.pc = "ok"
       THEN /\ wr' = WrStart(ListPath(ListNameOf(run.pc)), net.result)
            /\ run' = [run EXCEPT !.sub = "write"]
       ELSE /\ wr' = wr
            /\ run' = AfterList(
                   [run EXCEPT !.report.lists[ListNameOf(run.pc)] =
                                   ListFallbackOutcome(run.fallback, net.error)],
                   run.fallback)
    /\ net' = NetIdle
    /\ UNCHANGED <<cfg, clock, ticks, nextAllowedAt, inflight, hist, caller,
                   faultsLeft, files, out, remote>>

\* the write is over: return the data; a rejected write falls back as well
ListWritten ==
    /\ run.pc \in ListPcs
    /\ run.sub = "write"
    /\ wr.pc \in {"ok", "err"}
    /\ run' = IF wr.pc = "ok"
              THEN AfterList(
                   [run EXCEPT !.report.lists[ListNameOf(run.pc)] =
                                   ListFetchedOutcome(wr.data, ListUrl(ListNameOf(run.pc)))],
                   wr.data)
              ELSE AfterList(
                   [run EXCEPT !.report.lists[ListNameOf(run.pc)] =
                                   ListFallbackOutcome(run.fallback, "write failed")],
                   run.fallback)
    /\ wr' = WrIdle
    /\ UNCHANGED <<cfg, clock, ticks, netVars, caller, faultsLeft, files, out,
                   remote>>

\* updateHotPool up to its write: read the pool, merge, prune, cap
UpdateHotPoolBegin ==
    /\ run.pc = "PoolMerge"
    /\ wr.pc = "idle"
    /\ LET prevPool == ReadJson(HotPoolPath, Arr(<<>>))
           a == OrEmpty(prevPool)
           b == OrEmpty(OrEmpty(run.hot))
       IN IF ~Iterable(a) \/ ~Iterable(b)
          THEN /\ run' = Abort([run EXCEPT !.prevPool = prevPool])
               /\ wr' = wr
          ELSE \E merged \in SortOutcomes(MergeFold(a.v \o b.v, <<>>)) :
                 LET pruned == Prune(merged, clock, HotPoolTtlMs)
                 IN /\ run' = [run EXCEPT !.pc = "PoolWrite",
                                          !.prevPool = prevPool,
                                          !.merged = merged,
                                          !.pruned = pruned,
                                          !.poolNow = clock]
                    /\ wr' = WrStart(HotPoolPath, Arr(Limit(pruned)))
    /\ UNCHANGED <<cfg, clock, ticks, netVars, caller, faultsLeft, files, out,
                   remote>>

\* the write is over: return limited, or the rejection ends main()
UpdateHotPoolEnd ==
    /\ run.pc = "PoolWrite"
    /\ wr.pc \in {"ok", "err"}
    /\ run' = IF wr.pc = "ok"
              THEN [run EXCEPT !.pc = "ListNodes", !.sub = "call",
                               !.hotPool = wr.data,
                               !.report.lists["hot_pool"] =
                                   [status |-> "updated", count |-> Len(wr.data.v),
                                    error |-> NoError]]
              ELSE Abort(run)
    /\ wr' = WrIdle
    /\ UNCHANGED <<cfg, clock, ticks, netVars, caller, faultsLeft, files, out,
                   remote>>

\* dedupeTopicIds: the valid ids in the order of their first occurrence
DedupeStepNoSet(acc, item) ==
    IF ValidId(item) THEN Append(acc, NumberOf(item.id)) ELSE acc

DedupeStep(acc, item) ==
    IF ValidId(item) /\ NumberOf(item.id) \notin Range(acc)
    THEN Append(acc, NumberOf(item.id))
    ELSE acc

RECURSIVE DedupeFold(_, _)
DedupeFold(items, acc) ==
    IF items = <<>> THEN acc
    ELSE DedupeFold(Tail(items), DedupeStep(acc, Head(items)))

dedupeTopicIds(items) == DedupeFold(items, <<>>)

\* the list the candidates are taken from
CandidateSourceListsOnly(latest, hot, hotPool) ==
    OrEmpty(latest).v \o OrEmpty(hot).v

CandidateSourcePoolFirst(latest, hot, hotPool) ==
    OrEmpty(hotPool).v \o OrEmpty(latest).v

CandidateSource(latest, hot, hotPool) ==
    OrEmpty(latest).v \o OrEmpty(hotPool).v

\* the loop is over or goes to its next id
LoopAtThenNodes(r, idx) ==
    IF idx <= Len(r.candidates)
    THEN [r EXCEPT !.pc = "Item", !.idx = idx]
    ELSE [r EXCEPT !.pc = "ListNodes", !.sub = "call", !.idx = idx]

LoopAt(r, idx) ==
    IF idx <= Len(r.candidates)
    THEN [r EXCEPT !.pc = "Item", !.idx = idx]
    ELSE [r EXCEPT !.pc = "StatePersist", !.idx = idx]

\* main() from the candidates to the head of the loop
CandidateBuild ==
    /\ run.pc = "CandidateBuild"
    /\ run' = IF ~Iterable(OrEmpty(run.latest))
              THEN Abort(run)
              ELSE LET candidates ==
                           dedupeTopicIds(
                               CandidateSource(run.latest, run.hot, run.hotPool))
                   IN LoopAt([run EXCEPT !.candidates = candidates,
                                         !.report.candidates = Len(candidates),
                                         !.now = clock], 1)
    /\ UNCHANGED <<cfg, clock, ticks, netVars, caller, faultsLeft, diskVars,
                   out, remote>>

\* snapshotFromLists: the first hit in latest, then hot
FirstHit(items, id) ==
    LET hits == {i \in 1..Len(items) : JsSame(NumberOf(items[i].id), id)}
    IN IF hits = {} THEN <<>>
       ELSE <<items[CHOOSE i \in hits : \A j \in hits : i <= j]>>

SnapshotFromPoolToo(id, latest, hot) ==
    LET hit == FirstHit(OrEmpty(latest).v \o OrEmpty(hot).v \o run.hotPool.v, id)
    IN IF hit = <<>> THEN Snapshot(id, 0, 0)
       ELSE Snapshot(id,
                     NumberOf(Coalesce(hit[1].replies, 0)),
                     NumberOf(Coalesce(hit[1].last_modified,
                                       Coalesce(hit[1].last_touched, 0))))

snapshotFromLists(id, latest, hot) ==
    LET hit == FirstHit(OrEmpty(latest).v \o OrEmpty(hot).v, id)
    IN IF hit = <<>> THEN Snapshot(id, 0, 0)
       ELSE Snapshot(id,
                     NumberOf(Coalesce(hit[1].replies, 0)),
                     NumberOf(Coalesce(hit[1].last_modified,
                                       Coalesce(hit[1].last_touched, 0))))

\* a reply document: {replies, meta: {fetched_at, reply_count, ...}}
RepliesDocPartialLe(replies, fetchedAt, totalCount, fetchedCount) ==
    [t |-> "replies",
     v |-> <<[replies |-> replies, fetched_at |-> fetchedAt,
              reply_count |-> JsonNumber(totalCount),
              total_count |-> JsonNumber(totalCount),
              fetched_count |-> fetchedCount,
              partial |-> (totalCount # NaN /\ fetchedCount <= totalCount)]>>]

RepliesDoc(replies, fetchedAt, totalCount, fetchedCount) ==
    [t |-> "replies",
     v |-> <<[replies |-> replies, fetched_at |-> fetchedAt,
              reply_count |-> JsonNumber(totalCount),
              total_count |-> JsonNumber(totalCount),
              fetched_count |-> fetchedCount,
              partial |-> (totalCount # NaN /\ fetchedCount < totalCount)]>>]

\* existingRepliesDoc?.meta?.reply_count
DocReplyCount(doc) == IF doc.t = "replies" THEN doc.v[1].reply_count ELSE Absent

ShouldRefreshRepliesAlways(refreshed, repliesDoc, topic) == TRUE

ShouldRefreshRepliesNoCount(refreshed, repliesDoc, topic) ==
    \/ refreshed
    \/ repliesDoc.t = "null"

\* shouldRefreshTopic || !existingRepliesDoc || the two counts differ
ShouldRefreshReplies(refreshed, repliesDoc, topic) ==
    \/ refreshed
    \/ repliesDoc.t = "null"
    \/ ~JsSame(NumberOf(Coalesce(DocReplyCount(repliesDoc), -1)),
               NumberOf(IF topic = <<>> THEN -2 ELSE Coalesce(topic[1].replies, -2)))

\* catch (error) { report.topics.failed.push(...) } and on to the next id
FailItemAborts(r, error) == Abort(r)

FailItemCounted(r, error) ==
    LoopAt([r EXCEPT !.report.failed =
                         Append(@, [topic_id |-> r.candidates[r.idx],
                                    error |-> error]),
                     !.report.skipped = @ + 1],
           r.idx + 1)

FailItem(r, error) ==
    LoopAt([r EXCEPT !.report.failed =
                         Append(@, [topic_id |-> r.candidates[r.idx],
                                    error |-> error])],
           r.idx + 1)

\* the body of the loop up to its first fetch: read both documents, decide
ItemBegin ==
    /\ run.pc = "Item"
    /\ net.pc = "idle"
    /\ LET id == run.candidates[run.idx]
           topicDoc == ReadJson(TopicPath(id), Null)
           repliesDoc == ReadJson(RepliesPath(id), Null)
           snap == snapshotFromLists(id, run.latest, run.hot)
           refresh == decideRefreshTopic(topicDoc, snap, run.now, RefreshTtlMs)
           topic == DocTopic(topicDoc)
           r1 == [run EXCEPT !.existingTopicDoc = topicDoc,
                             !.existingRepliesDoc = repliesDoc,
                             !.listSnapshot = snap,
                             !.shouldRefreshTopic = refresh,
                             !.topic = topic,
                             !.visited = Append(@, id)]
       IN IF refresh
          THEN /\ run' = [r1 EXCEPT !.pc = "Detail"]
               /\ net' = NetStart(TopicUrl(id))
               /\ hist' = [hist EXCEPT !.calls = @ + 1, !.attempts = 0,
                                       !.fails = 0, !.lastFail = NoError]
          ELSE IF ShouldRefreshReplies(FALSE, repliesDoc, topic) /\ topic # <<>>
          THEN /\ run' = [r1 EXCEPT !.pc = "Replies", !.report.skipped = @ + 1]
               /\ net' = NetStart(RepliesUrl(id))
               /\ hist' = [hist EXCEPT !.calls = @ + 1, !.attempts = 0,
                                       !.fails = 0, !.lastFail = NoError]
          ELSE /\ run' = LoopAt([r1 EXCEPT !.report.skipped = @ + 1], run.idx + 1)
               /\ UNCHANGED <<net, hist>>
    /\ UNCHANGED <<cfg, clock, ticks, nextAllowedAt, inflight, caller, faultsLeft,
                   diskVars, out, remote>>

\* fetchTopic: the first element of a non-empty array, else null
FetchTopicPlaceholder(data) ==
    IF IsArray(data) /\ Len(data.v) > 0 THEN <<data.v[1]>>
    ELSE <<Topic(0, 0, 0, 0, 0)>>

fetchTopic(data) ==
    IF IsArray(data) /\ Len(data.v) > 0 THEN <<data.v[1]>> ELSE <<>>

\* fetchTopic returns: an empty payload throws, a topic is written
DetailFetched ==
    /\ run.pc = "Detail"
    /\ net.pc \in {"ok", "err"}
    /\ LET id == run.candidates[run.idx]
           topic == fetchTopic(net.result)
       IN IF net.pc = "err"
          THEN /\ run' = FailItem(run, net.error)
               /\ wr' = wr
          ELSE IF topic = <<>>
          THEN /\ run' = FailItem(run, "Empty topic payload")
               /\ wr' = wr
          ELSE /\ run' = [run EXCEPT !.pc = "DetailWrite", !.topic = topic]
               /\ wr' = WrStart(TopicPath(id),
                                TopicDoc(topic, clock,
                                         <<Snapshot(run.listSnapshot.id,
                                             JsonNumber(run.listSnapshot.replies),
                                             JsonNumber(run.listSnapshot.last_modified))>>))
    /\ net' = NetIdle
    /\ UNCHANGED <<cfg, clock, ticks, nextAllowedAt, inflight, hist, caller,
                   faultsLeft, files, out, remote>>

\* the topic document is written: count it, then fetch the replies
DetailWritten ==
    /\ run.pc = "DetailWrite"
    /\ wr.pc \in {"ok", "err"}
    /\ net.pc = "idle"
    /\ IF wr.pc = "err"
       THEN /\ run' = FailItem(run, "write failed")
            /\ UNCHANGED <<net, hist>>
       ELSE /\ run' = [run EXCEPT !.pc = "Replies", !.report.refreshed = @ + 1]
            /\ net' = NetStart(RepliesUrl(run.candidates[run.idx]))
            /\ hist' = [hist EXCEPT !.calls = @ + 1, !.attempts = 0,
                                    !.fails = 0, !.lastFail = NoError]
    /\ wr' = WrIdle
    /\ UNCHANGED <<cfg, clock, ticks, nextAllowedAt, inflight, caller, faultsLeft,
                   files, out, remote>>

\* fetchReplies returns (no token: one call, a non-array counts as [])
RepliesFetched ==
    /\ run.pc = "Replies"
    /\ net.pc \in {"ok", "err"}
    /\ IF net.pc = "err"
       THEN /\ run' = FailItem(run, net.error)
            /\ wr' = wr
       ELSE LET replies == IF IsArray(net.result) THEN net.result.v ELSE <<>>
                totalCount == NumberOf(Coalesce(run.topic[1].replies, Len(replies)))
            IN /\ run' = [run EXCEPT !.pc = "RepliesWrite"]
               /\ wr' = WrStart(RepliesPath(run.candidates[run.idx]),
                                RepliesDoc(replies, clock, totalCount, Len(replies)))
    /\ net' = NetIdle
    /\ UNCHANGED <<cfg, clock, ticks, nextAllowedAt, inflight, hist, caller,
                   faultsLeft, files, out, remote>>

\* the replies document is written: on to the next id
RepliesWritten ==
    /\ run.pc = "RepliesWrite"
    /\ wr.pc \in {"ok", "err"}
    /\ run' = IF wr.pc = "err"
              THEN FailItem(run, "write failed")
              ELSE LoopAt(run, run.idx + 1)
    /\ wr' = WrIdle
    /\ UNCHANGED <<cfg, clock, ticks, netVars, caller, faultsLeft, files, out,
                   remote>>

\* the state document
StateDocCountsSwapped(lastSuccessAt, candidates, refreshed, failed, previous) ==
    [t |-> "state",
     v |-> <<[last_success_at |-> lastSuccessAt,
              candidate_topic_ids |-> candidates,
              refreshed_topic_count |-> failed,
              failed_topic_count |-> refreshed,
              previous_last_success_at |-> previous]>>]

StateDocKeptOnFailure(lastSuccessAt, candidates, refreshed, failed, previous) ==
    [t |-> "state",
     v |-> <<[last_success_at |-> IF failed > 0 THEN previous ELSE lastSuccessAt,
              candidate_topic_ids |-> candidates,
              refreshed_topic_count |-> refreshed,
              failed_topic_count |-> failed,
              previous_last_success_at |-> previous]>>]

StateDoc(lastSuccessAt, candidates, refreshed, failed, previous) ==
    [t |-> "state",
     v |-> <<[last_success_at |-> lastSuccessAt,
              candidate_topic_ids |-> candidates,
              refreshed_topic_count |-> refreshed,
              failed_topic_count |-> failed,
              previous_last_success_at |-> previous]>>]

PreviousSuccessOlder(state) ==
    IF state.t = "state" THEN state.v[1].previous_last_success_at ELSE Absent

\* previousState.last_success_at ?? null
PreviousSuccess(state) ==
    IF state.t = "state" THEN state.v[1].last_success_at ELSE Absent

\* after the loop: nextState, finished_at, and the write of the state file
StatePersist ==
    /\ run.pc = "StatePersist"
    /\ wr.pc = "idle"
    /\ run' = [run EXCEPT !.pc = "StateWrite", !.report.finished_at = clock]
    /\ wr' = WrStart(StatePath,
                     StateDoc(clock, run.candidates, run.report.refreshed,
                              Len(run.report.failed),
                              PreviousSuccess(run.previousState)))
    /\ UNCHANGED <<cfg, clock, ticks, netVars, caller, faultsLeft, files, out,
                   remote>>

\* the state file is written: write the report
StateWritten ==
    /\ run.pc = "StateWrite"
    /\ wr.pc \in {"ok", "err"}
    /\ IF wr.pc = "err"
       THEN /\ run' = Abort(run)
            /\ wr' = WrIdle
       ELSE /\ run' = [run EXCEPT !.pc = "ReportWrite"]
            /\ wr' = WrStart(LastRunPath, [t |-> "report", v |-> <<run.report>>])
    /\ UNCHANGED <<cfg, clock, ticks, netVars, caller, faultsLeft, files, out,
                   remote>>

\* the report is written: main() returns
ReportWritten ==
    /\ run.pc = "ReportWrite"
    /\ wr.pc \in {"ok", "err"}
    /\ run' = IF wr.pc = "err" THEN Abort(run) ELSE [run EXCEPT !.pc = "Done"]
    /\ wr' = WrIdle
    /\ UNCHANGED <<cfg, clock, ticks, netVars, caller, faultsLeft, files, out,
                   remote>>

MainStep ==
    \/ MainStart
    \/ MainStartFail
    \/ ListFetch
    \/ ListFetched
    \/ ListWritten
    \/ UpdateHotPoolBegin
    \/ UpdateHotPoolEnd
    \/ CandidateBuild
    \/ ItemBegin
    \/ DetailFetched
    \/ DetailWritten
    \/ RepliesFetched
    \/ RepliesWritten
    \/ StatePersist
    \/ StateWritten
    \/ ReportWritten

(* --------------------------------------- the network client on its own -- *)
NetConfigs ==
    [concurrency : {2},
     intervalMs : 0..MaxInterval,
     refreshTtlHours : {24},
     retries : 0..MaxRetries,
     hotPoolLimit : {600},
     hotPoolTtlDays : {30}]

NetInit ==
    /\ cfg \in NetConfigs
    /\ clock = 0
    /\ ticks = 0
    /\ nextAllowedAt = 0
    /\ net = NetIdle
    /\ inflight = 0
    /\ hist = HistInit
    /\ caller = "idle"
    /\ faultsLeft = MaxCalls * MaxRetries
    /\ files = NoFiles
    /\ wr = WrIdle
    /\ out = NoOut
    /\ run = RunNone
    /\ remote = 0

\* a caller awaits fetchJsonWithRetry(url)
NetCall ==
    /\ caller = "idle"
    /\ net.pc = "idle"
    /\ hist.calls < MaxCalls
    /\ \E url \in {UrlLatest, UrlNodes} :
        net' = NetStart(url)
    /\ hist' = [hist EXCEPT !.calls = @ + 1, !.attempts = 0, !.fails = 0,
                            !.lastFail = NoError]
    /\ caller' = "awaiting"
    /\ UNCHANGED <<cfg, clock, ticks, nextAllowedAt, inflight, faultsLeft,
                   diskVars, out, run, remote>>

\* the call returns or throws to its caller
NetReturn ==
    /\ caller = "awaiting"
    /\ net.pc \in {"ok", "err"}
    /\ net' = NetIdle
    /\ caller' = "idle"
    /\ UNCHANGED <<cfg, clock, ticks, nextAllowedAt, inflight, hist, faultsLeft,
                   diskVars, out, run, remote>>

NetNext ==
    \/ NetCall
    \/ NetStep
    \/ NetReturn
    \/ Tick

SpecNet == NetInit /\ [][NetNext]_vars

(* --------------------------------------- writeJsonAtomic on its own ------ *)
\* Processes write documents one after another; a process can be killed at
\* any step, and a later process reads the documents.
SampleBodies == {[t |-> "arr", v |-> <<>>], [t |-> "null", v |-> <<>>]}

WriteKeys == {<<"latest", 0>>, <<"state", 0>>}

WriteInit ==
    /\ cfg \in {c \in NetConfigs : c.intervalMs = 0 /\ c.retries = SyncRetries}
    /\ clock = 0
    /\ ticks = 0
    /\ nextAllowedAt = 0
    /\ net = NetIdle
    /\ inflight = 0
    /\ hist = HistInit
    /\ caller = "idle"
    /\ faultsLeft = MaxFaults
    /\ files = NoFiles
    /\ wr = WrIdle
    /\ out = NoOut
    /\ run = RunNone
    /\ remote = 0

\* a caller awaits writeJsonAtomic(file, data)
WriterCall ==
    /\ caller = "idle"
    /\ wr.pc = "idle"
    /\ hist.calls < MaxCalls
    /\ \E key \in WriteKeys, data \in SampleBodies :
        wr' = WrStart(PathOf(key), data)
    /\ hist' = [hist EXCEPT !.calls = @ + 1]
    /\ caller' = "writing"
    /\ UNCHANGED <<cfg, clock, ticks, nextAllowedAt, net, inflight, faultsLeft,
                   files, out, run, remote>>

\* the call returns or throws to its caller
WriterReturn ==
    /\ caller = "writing"
    /\ wr.pc \in {"ok", "err"}
    /\ wr' = WrIdle
    /\ caller' = "idle"
    /\ UNCHANGED <<cfg, clock, ticks, netVars, faultsLeft, files, out, run, remote>>

\* the process is killed where it stands
Kill ==
    /\ caller \in {"idle", "writing"}
    /\ faultsLeft > 0
    /\ faultsLeft' = faultsLeft - 1
    /\ caller' = "dead"
    /\ wr' = IF wr.pc = "idle" THEN wr ELSE [wr EXCEPT !.pc = "killed"]
    /\ UNCHANGED <<cfg, clock, ticks, netVars, files, out, run, remote>>

\* a new process starts
Restart ==
    /\ caller = "dead"
    /\ caller' = "idle"
    /\ wr' = WrIdle
    /\ UNCHANGED <<cfg, clock, ticks, netVars, faultsLeft, files, out, run, remote>>

\* some process reads a document with readJson(file, null)
ReadDoc ==
    /\ \E key \in WriteKeys :
        out' = [op |-> "read", path |-> PathOf(key),
                content |-> files[PathOf(key)],
                value |-> ReadJson(PathOf(key), [t |-> "null", v |-> <<>>]),
                afterKill |-> (caller = "dead")]
    /\ out' # out
    /\ UNCHANGED <<cfg, clock, ticks, netVars, caller, faultsLeft, files, wr, run, remote>>

WriteNext ==
    \/ WriterCall
    \/ WrStep
    \/ WriterReturn
    \/ Kill
    \/ Restart
    \/ ReadDoc

SpecWrite == WriteInit /\ [][WriteNext]_vars

(* ------------------------------------------- updateHotPool on its own ---- *)
\* One merge, from any pool an earlier merge can have written (distinct valid
\* ids, in the order the sort left them) and any fresh hot list of at most
\* one entry.  Entries are aged in whole days against the instant BaseNow.
TtlDayChoices == 0..1
StampAges == 0..2

\* <<last_touched, last_modified, created>>
Stamps ==
    {<<Absent, Absent, Absent>>,
     <<NaN, TsAgo(0), Absent>>,
     <<0, TsAgo(0), Absent>>,
     <<Absent, TsAgo(1), TsAgo(2)>>,
     <<TsAgo(2), TsAgo(0), Absent>>}
    \cup {<<TsAgo(d), Absent, Absent>> : d \in StampAges}

PoolItems == {Topic(id, 0, st[2], st[1], st[3]) : id \in TopicIds, st \in Stamps}

BadIdItem == Topic(0, 0, Absent, TsAgo(0), Absent)

DistinctIds(seq) ==
    \A i, j \in 1..Len(seq) :
        NumberOf(seq[i].id) = NumberOf(seq[j].id) => i = j

PrevPools ==
    {s \in UNION {[1..n -> PoolItems] : n \in 0..MaxId} :
        DistinctIds(s) /\ s \in SortOutcomes(s)}

HotLists == {<<>>} \cup {<<t>> : t \in PoolItems \cup {BadIdItem}}

PoolConfigs ==
    [concurrency : {2},
     intervalMs : {0},
     refreshTtlHours : {24},
     retries : {SyncRetries},
     hotPoolLimit : 0..MaxPoolLimit,
     hotPoolTtlDays : TtlDayChoices]

PoolInit ==
    /\ cfg \in PoolConfigs
    /\ clock \in {BaseNow, BaseNow + 1}
    /\ ticks = 0
    /\ nextAllowedAt = 0
    /\ net = NetIdle
    /\ inflight = 0
    /\ hist = HistInit
    /\ caller = "main"
    /\ faultsLeft = 1
    /\ \E prev \in {Missing} \cup {Full(Arr(s)) : s \in PrevPools} :
        files = [NoFiles EXCEPT ![HotPoolPath] = prev]
    /\ wr = WrIdle
    /\ out = NoOut
    /\ \E hot \in {Null, Obj} \cup {Arr(s) : s \in HotLists} :
        run = [RunNone EXCEPT !.pc = "PoolMerge", !.hot = hot]
    /\ remote = 0

PoolNext ==
    \/ UpdateHotPoolBegin
    \/ WrStep
    \/ UpdateHotPoolEnd

SpecPool == PoolInit /\ [][PoolNext]_vars

(* -------------------------------------- decideRefreshTopic on its own ---- *)
\* One decision, on any document the disk can hold and any list snapshot.
RefreshTtlChoices == 0..1
DecideNow == 2 * HourMs

DecideFetchedAts ==
    {Absent, NaN, DecideNow, DecideNow - HourMs, DecideNow - HourMs - 1,
     DecideNow + 1}

DecideSnapshots ==
    {<<>>} \cup {<<Snapshot(1, r, lm)>> : r \in {Absent, 0, 2},
                                          lm \in {Absent, 0, 100}}

DecideDocs ==
    {Null}
    \cup {TopicDoc(tp, at, sn) :
            tp \in {<<>>, <<Topic(1, 2, 100, 100, 50)>>},
            at \in DecideFetchedAts, sn \in DecideSnapshots}

DecideListSnapshots == {Snapshot(1, r, lm) : r \in {0, 2}, lm \in {0, 100, NaN}}

DecideConfigs ==
    [concurrency : {2},
     intervalMs : {0},
     refreshTtlHours : RefreshTtlChoices,
     retries : {SyncRetries},
     hotPoolLimit : {MaxPoolLimit},
     hotPoolTtlDays : {1}]

DecideInit ==
    /\ cfg \in DecideConfigs
    /\ clock = DecideNow
    /\ ticks = 0
    /\ nextAllowedAt = 0
    /\ net = NetIdle
    /\ inflight = 0
    /\ hist = HistInit
    /\ caller = "decide"
    /\ faultsLeft = 0
    /\ files = NoFiles
    /\ wr = WrIdle
    /\ \E doc \in DecideDocs, snap \in DecideListSnapshots :
        out = [op |-> "args", doc |-> doc, listSnapshot |-> snap,
               now |-> clock, ttlMs |-> RefreshTtlMs, result |-> FALSE]
    /\ run = RunNone
    /\ remote = 0

\* const shouldRefreshTopic = decideRefreshTopic({...})
DecideCall ==
    /\ caller = "decide"
    /\ out.op = "args"
    /\ out' = [out EXCEPT !.op = "decided",
                          !.result = decideRefreshTopic(out.doc, out.listSnapshot,
                                                        out.now, out.ttlMs)]
    /\ UNCHANGED <<cfg, clock, ticks, netVars, caller, faultsLeft, files, wr, run, remote>>

DecideNext == DecideCall

SpecDecide == DecideInit /\ [][DecideNext]_vars

(* ----------------------------------------- mergeTopicLists on its own ---- *)
\* One call mergeTopicLists(a, b), a of at most MaxMergeLen entries and b of
\* at most one, ids repeated at will, followed by the prune and the cap of
\* updateHotPool: entries scored 1, 2 or not a number by last_touched, 2 by
\* last_modified, and one with the id 0.
MergeIds == 1..(MaxId + 1)

MergeItems ==
    {Topic(id, 0, Absent, lt, Absent) : id \in MergeIds, lt \in {1, 2, NaN}}
    \cup {Topic(id, 0, 2, Absent, 1) : id \in MergeIds}
    \cup {Topic(0, 0, Absent, 2, Absent)}

MergeInit ==
    /\ cfg \in DecideConfigs
    /\ cfg.refreshTtlHours = 1
    /\ clock = 0
    /\ ticks = 0
    /\ nextAllowedAt = 0
    /\ net = NetIdle
    /\ inflight = 0
    /\ hist = HistInit
    /\ caller = "merge"
    /\ faultsLeft = 0
    /\ files = NoFiles
    /\ wr = WrIdle
    /\ \E a \in UNION {[1..n -> MergeItems] : n \in 0..MaxMergeLen},
          b \in UNION {[1..n -> MergeItems] : n \in 0..1} :
        out = [op |-> "args", a |-> a, b |-> b, result |-> <<>>,
               pruned |-> <<>>, limited |-> <<>>]
    /\ run = RunNone
    /\ remote = 0

\* const merged = mergeTopicLists(prevPool, currentHot ?? [])
MergeCall ==
    /\ caller = "merge"
    /\ out.op = "args"
    /\ \E merged \in SortOutcomes(MergeFold(out.a \o out.b, <<>>)) :
           out' = [out EXCEPT !.op = "merged", !.result = merged]
    /\ UNCHANGED <<cfg, clock, ticks, netVars, caller, faultsLeft, files, wr, run,
                   remote>>

\* const pruned = merged.filter(...); const limited = pruned.slice(0, ...)
PruneAndCap ==
    /\ caller = "merge"
    /\ out.op = "merged"
    /\ LET pruned == Prune(out.result, clock, HotPoolTtlMs)
       IN out' = [out EXCEPT !.op = "capped", !.pruned = pruned,
                             !.limited = Limit(pruned)]
    /\ UNCHANGED <<cfg, clock, ticks, netVars, caller, faultsLeft, files, wr, run,
                   remote>>

MergeNext ==
    \/ MergeCall
    \/ PruneAndCap

SpecMerge == MergeInit /\ [][MergeNext]_vars

(* ------------------------------------------ dedupeTopicIds on its own ---- *)
\* One call, on any short sequence of items: ids that are valid, zero,
\* negative, not a number, or missing.
DedupeIds == (1..MaxId) \cup {0, -1, NaN, Absent}

DedupeItems == {Topic(id, 0, Absent, Absent, Absent) : id \in DedupeIds}

DedupeInputs == UNION {[1..n -> DedupeItems] : n \in 0..MaxItems}

DedupeInit ==
    /\ cfg \in DecideConfigs
    /\ cfg.refreshTtlHours = 1
    /\ clock = 0
    /\ ticks = 0
    /\ nextAllowedAt = 0
    /\ net = NetIdle
    /\ inflight = 0
    /\ hist = HistInit
    /\ caller = "dedupe"
    /\ faultsLeft = 0
    /\ files = NoFiles
    /\ wr = WrIdle
    /\ \E items \in DedupeInputs :
        out = [op |-> "args", items |-> items, result |-> <<>>]
    /\ run = RunNone
    /\ remote = 0

\* const candidates = dedupeTopicIds([...])
DedupeCall ==
    /\ caller = "dedupe"
    /\ out.op = "args"
    /\ out' = [out EXCEPT !.op = "deduped", !.result = dedupeTopicIds(out.items)]
    /\ UNCHANGED <<cfg, clock, ticks, netVars, caller, faultsLeft, files, wr, run,
                   remote>>

DedupeNext == DedupeCall

SpecDedupe == DedupeInit /\ [][DedupeNext]_vars

(* ------------------------------------ the comments document on its own -- *)
\* The loop at the point where fetchReplies has returned, for any reply count
\* the topic can carry and any number of comments fetched.
ReplyCounts == (0..(MaxItems + 1)) \cup {-1, NaN, Absent}

ReplyBodies == {Arr([i \in 1..n |-> i]) : n \in 0..MaxItems} \cup {Null, Obj}

RepliesInit ==
    /\ cfg \in DecideConfigs
    /\ cfg.refreshTtlHours = 1
    /\ clock = BaseNow
    /\ ticks = 0
    /\ nextAllowedAt = 0
    /\ inflight = 0
    /\ hist = HistInit
    /\ caller = "main"
    /\ faultsLeft = 1
    /\ files = NoFiles
    /\ wr = WrIdle
    /\ out = NoOut
    /\ remote = 0
    /\ \E count \in ReplyCounts, body \in ReplyBodies :
        /\ run = [RunNone EXCEPT !.pc = "Replies", !.n = 1,
                                 !.candidates = <<1>>, !.idx = 1, !.now = clock,
                                 !.shouldRefreshTopic = TRUE,
                                 !.topic = <<Topic(1, count, 100, 100, 50)>>,
                                 !.visited = <<1>>]
        /\ net = [NetIdle EXCEPT !.pc = "ok", !.url = RepliesUrl(1),
                                 !.result = body]

RepliesNext ==
    \/ RepliesFetched
    \/ WrStep
    \/ RepliesWritten

SpecReplies == RepliesInit /\ [][RepliesNext]_vars

(* ------------------------------------------------------ the sync run ---- *)
\* One run of the sync script against the disk an earlier run may have left
\* and a remote site that answers, answers with another shape, or fails.
Configs ==
    {[concurrency |-> c[1], intervalMs |-> 1, refreshTtlHours |-> 1,
      retries |-> SyncRetries, hotPoolLimit |-> c[2], hotPoolTtlDays |-> 1] :
        c \in {<<1, 1>>, <<MaxConcurrency, MaxPoolLimit>>}}

\* the documents of a topic an earlier run refreshed a moment ago
StoredTopicDoc(id) ==
    TopicDoc(<<RemoteTopicAt(id, 0)>>, BaseNow - 1,
             <<Snapshot(id, 0, RemoteTopicAt(id, 0).last_modified)>>)

StoredRepliesDoc(id) == RepliesDoc(<<>>, BaseNow - 1, 0, 0)

\* the disk after a run, a moment ago, that found topic 1 in both lists and
\* refreshed it
StoredDocs ==
    [NoFiles EXCEPT ![ListPath("latest")] = Full(Arr(<<RemoteTopicAt(1, 0)>>)),
                    ![ListPath("hot")] = Full(Arr(<<RemoteTopicAt(1, 0)>>)),
                    ![HotPoolPath] = Full(Arr(<<RemoteTopicAt(1, 0)>>)),
                    ![ListPath("nodes")] = Full(Arr(<<>>)),
                    ![TopicPath(1)] = Full(StoredTopicDoc(1)),
                    ![RepliesPath(1)] = Full(StoredRepliesDoc(1)),
                    ![StatePath] = Full(StateDoc(BaseNow - 1, <<1>>, 1, 0, Absent))]

\* the disk after runs under a longer pool TTL: the pool holds a topic
\* untouched for two days, topic 1 was refreshed but its comments were not
\* (their fetch had failed), and the last answer for latest, kept as it
\* came, was not a list
StoredOddDocs ==
    [NoFiles EXCEPT ![ListPath("latest")] = Full(Obj),
                    ![HotPoolPath] = Full(Arr(<<StaleTopic(1)>>)),
                    ![TopicPath(1)] = Full(StoredTopicDoc(1))]

\* what earlier runs left and what has happened at the remote since: a
\* first run; a complete run and nothing new; the same, with a new reply;
\* the disk of StoredOddDocs
Scenarios ==
    {[files |-> NoFiles, remote |-> 0],
     [files |-> StoredDocs, remote |-> 0],
     [files |-> StoredDocs, remote |-> 1],
     [files |-> StoredOddDocs, remote |-> 0]}

\* the faults are enough for one call to use up its retries
Init ==
    /\ cfg \in Configs
    /\ clock = BaseNow
    /\ ticks = 0
    /\ nextAllowedAt = 0
    /\ net = NetIdle
    /\ inflight = 0
    /\ hist = HistInit
    /\ caller = "main"
    /\ faultsLeft = cfg.retries
    /\ \E sc \in Scenarios :
        /\ files = sc.files
        /\ remote = sc.remote
    /\ wr = WrIdle
    /\ out = NoOut
    /\ run = [RunNone EXCEPT !.pc = "Start", !.n = 1]

Next ==
    \/ MainStep
    \/ NetStep
    \/ WrStep

Spec == Init /\ [][Next]_vars

\* A run on an empty data directory in which every step that can be taken
\* is taken sooner or later: each request attempt and each file operation
\* comes to its end, well or not.
FairInit ==
    /\ Init
    /\ files = NoFiles

FairSpec == FairInit /\ [][Next]_vars /\ WF_vars(Next)

(* ------------------------------------------- one candidate of the loop -- *)
\* The loop at the head of its body for one candidate, topic 1 of the latest
\* list, with any pair of documents an earlier run can have left for it: no
\* item document, a fresh or an outdated one, whose topic carries any reply
\* count and whose list snapshot is the one of the list or another; no
\* comments document or one, fresh or outdated, that remembers any reply
\* count.
CommentCounts == {0, 1, NaN, Absent}

ItemDocsOnDisk ==
    {Missing} \cup
    {Full(TopicDoc(<<Topic(1, count, RemoteTopicAt(1, 0).last_modified,
                           RemoteTopicAt(1, 0).last_touched, TsAgo(2))>>,
                   BaseNow - age,
                   <<Snapshot(1, seen, RemoteTopicAt(1, 0).last_modified)>>)) :
         count \in CommentCounts, age \in {1, 2 * HourMs}, seen \in {0, 1}}

CommentDocsOnDisk ==
    {Missing} \cup
    {Full(RepliesDoc(<<>>, BaseNow - age, NumberOf(count), 0)) :
         count \in CommentCounts, age \in {1, 2 * HourMs}}

ItemInit ==
    /\ cfg \in Configs
    /\ clock = BaseNow
    /\ ticks = 0
    /\ nextAllowedAt = 0
    /\ net = NetIdle
    /\ inflight = 0
    /\ hist = HistInit
    /\ caller = "main"
    /\ faultsLeft \in {0, 1}
    /\ \E topicFile \in ItemDocsOnDisk, repliesFile \in CommentDocsOnDisk :
           files = [NoFiles EXCEPT ![TopicPath(1)] = topicFile,
                                   ![RepliesPath(1)] = repliesFile]
    /\ wr = WrIdle
    /\ out = NoOut
    /\ remote \in {0, 1}
    /\ run = [RunNone EXCEPT !.pc = "Item", !.n = 1,
                             !.latest = Arr(<<RemoteTopicAt(1, 0)>>),
                             !.hot = Arr(<<>>), !.hotPool = Arr(<<>>),
                             !.candidates = <<1>>, !.report.candidates = 1,
                             !.idx = 1, !.now = clock]

ItemNext ==
    \/ ItemBegin
    \/ DetailFetched
    \/ DetailWritten
    \/ RepliesFetched
    \/ RepliesWritten
    \/ NetStep
    \/ WrStep

SpecItem == ItemInit /\ [][ItemNext]_vars

(* ------------------------------------------- the answer to a detail call -- *)
\* The loop at the point where the detail call of its one candidate has been
\* answered, with any payload: the topic in an array, an empty array, null
\* or an object.  out keeps the payload and the disk as it was.
DetailBodies == {Arr(<<RemoteTopicAt(1, 1)>>), Arr(<<>>), Null, Obj}

DetailInit ==
    /\ cfg \in Configs
    /\ clock = BaseNow
    /\ ticks = 0
    /\ nextAllowedAt = clock + cfg.intervalMs
    /\ inflight = 0
    /\ hist = [HistInit EXCEPT !.calls = 1, !.attempts = 1, !.sent = 1,
                               !.sentTopic = 1]
    /\ caller = "main"
    /\ faultsLeft \in {0, 1}
    /\ \E topicFile \in {Missing, Full(StoredTopicDoc(1))},
          repliesFile \in {Missing, Full(StoredRepliesDoc(1))},
          body \in DetailBodies :
           /\ files = [NoFiles EXCEPT ![TopicPath(1)] = topicFile,
                                      ![RepliesPath(1)] = repliesFile]
           /\ net = [NetIdle EXCEPT !.pc = "ok", !.url = TopicUrl(1),
                                    !.result = body]
           /\ out = [op |-> "payload", body |-> body, files |-> files]
           /\ run = [RunNone EXCEPT
                        !.pc = "Detail", !.n = 1,
                        !.latest = Arr(<<RemoteTopicAt(1, 1)>>),
                        !.hot = Arr(<<>>), !.hotPool = Arr(<<>>),
                        !.candidates = <<1>>, !.report.candidates = 1,
                        !.idx = 1, !.now = clock,
                        !.existingTopicDoc = ReadJson(TopicPath(1), Null),
                        !.existingRepliesDoc = ReadJson(RepliesPath(1), Null),
                        !.listSnapshot =
                            snapshotFromLists(1, Arr(<<RemoteTopicAt(1, 1)>>),
                                              Arr(<<>>)),
                        !.shouldRefreshTopic = TRUE,
                        !.topic = DocTopic(ReadJson(TopicPath(1), Null)),
                        !.visited = <<1>>]
    /\ wr = WrIdle
    /\ remote = 1

DetailNext ==
    \/ DetailFetched
    \/ DetailWritten
    \/ RepliesFetched
    \/ RepliesWritten
    \/ NetStep
    \/ WrStep

SpecDetail == DetailInit /\ [][DetailNext]_vars

(* ------------------------------------------- collectCandidateTopicIds ---- *)
\* The bounded collector of the backfill script over the selected nodes.
\* out is its frame: the loop position (node, p), the set of ids in insertion
\* order, and pages, the page requests made so far, each with the size of
\* the set when it was made and what came back.
NodeTopicsUrl(node, p) == <<"node", node, p>>

CollectConfigs ==
    {[c EXCEPT !.retries = 1] : c \in {c \in Configs : c.concurrency = 1}}

\* the head of the two for loops: the next page to ask for, or the return
RECURSIVE CollectAt(_, _, _)
CollectAt(o, node, p) ==
    IF node > o.nodes THEN [o EXCEPT !.pc = "returned", !.node = node, !.p = p]
    ELSE IF o.pagesPerNode # NaN /\ p <= o.pagesPerNode
    THEN [o EXCEPT !.pc = "page", !.node = node, !.p = p]
    ELSE CollectAt(o, node + 1, 1)

\* if (set.size >= CONFIG.maxTopics) return [...set]
CapNeverReached(size, maxTopics) == FALSE

CapReached(size, maxTopics) == JsGe(size, maxTopics)

\* for (const topic of pageTopics): add the id, return at the cap
RECURSIVE CollectTopics(_, _, _)
CollectTopics(topics, set, maxTopics) ==
    IF topics = <<>> THEN [set |-> set, returned |-> FALSE]
    ELSE LET next == DedupeStep(set, Head(topics))
         IN IF CapReached(Len(next), maxTopics)
            THEN [set |-> next, returned |-> TRUE]
            ELSE CollectTopics(Tail(topics), next, maxTopics)

CollectInit ==
    /\ cfg \in CollectConfigs
    /\ clock = BaseNow
    /\ ticks = 0
    /\ nextAllowedAt = 0
    /\ net = NetIdle
    /\ inflight = 0
    /\ hist = HistInit
    /\ caller = "collect"
    /\ faultsLeft \in {0, 1}
    /\ files = NoFiles
    /\ wr = WrIdle
    /\ run = RunNone
    /\ remote = 0
    /\ \E pagesPerNode \in 0..MaxPages, maxTopics \in 0..MaxTopics :
           out = CollectAt([op |-> "collect", pc |-> "page", nodes |-> MaxNodes,
                            pagesPerNode |-> pagesPerNode,
                            maxTopics |-> maxTopics, node |-> 1, p |-> 1,
                            set |-> <<>>, pages |-> <<>>], 1, 1)

\* const pageTopics = await fetchJsonWithRetry(url)
CollectFetch ==
    /\ caller = "collect"
    /\ out.pc = "page"
    /\ net.pc = "idle"
    /\ net' = NetStart(NodeTopicsUrl(out.node, out.p))
    /\ hist' = [hist EXCEPT !.calls = @ + 1, !.attempts = 0, !.fails = 0,
                            !.lastFail = NoError]
    /\ out' = [out EXCEPT !.pc = "await",
                          !.pages = Append(@, [node |-> out.node, p |-> out.p,
                                               size |-> Len(out.set),
                                               got |-> "none"])]
    /\ UNCHANGED <<cfg, clock, ticks, nextAllowedAt, inflight, caller, faultsLeft,
                   diskVars, run, remote>>

\* the page is there, or the call threw: break, go on, or return at the cap
CollectPage ==
    /\ caller = "collect"
    /\ out.pc = "await"
    /\ net.pc \in {"ok", "err"}
    /\ LET got == IF net.pc = "err" THEN "error"
                  ELSE IF ~IsArray(net.result) \/ Len(net.result.v) = 0
                  THEN "empty" ELSE "items"
           o1 == [out EXCEPT !.pages[Len(out.pages)].got = got]
       IN IF got # "items"
          THEN out' = CollectAt(o1, out.node + 1, 1)
          ELSE LET c == CollectTopics(net.result.v, out.set, out.maxTopics)
               IN out' = IF c.returned
                         THEN [o1 EXCEPT !.pc = "returned", !.set = c.set]
                         ELSE CollectAt([o1 EXCEPT !.set = c.set],
                                        out.node, out.p + 1)
    /\ net' = NetIdle
    /\ UNCHANGED <<cfg, clock, ticks, nextAllowedAt, inflight, hist, caller,
                   faultsLeft, diskVars, run, remote>>

CollectNext ==
    \/ CollectFetch
    \/ CollectPage
    \/ NetStep

SpecCollect == CollectInit /\ [][CollectNext]_vars

(* ------------------------------------------------------ fetchReplies ---- *)
\* fetchReplies(1) with and without a token.  out is its frame: the page
\* counter p, the comments collected in all, and pages, the pages received
\* so far with the number of comments of each.
V2RepliesUrl(id, p) == <<"v2replies", id, p>>

\* Array.isArray(page?.result) ? page.result : Array.isArray(page) ? page : []
PageItemsOf(page) ==
    IF page.t = "objresult" \/ IsArray(page) THEN page.v ELSE <<>>

\* if (items.length < 50) break
ShortPageNever(n) == FALSE

ShortPage(n) == n < PageSize

\* for (let p = 1; p <= 50; p += 1): the next page is asked for, or all is
\* returned
RepliesLoopHead(o, p) ==
    IF p <= MaxReplyPages
    THEN [o EXCEPT !.pc = "await", !.p = p]
    ELSE [o EXCEPT !.pc = "returned", !.p = p]

FetchRepliesInit ==
    /\ cfg \in CollectConfigs
    /\ clock = BaseNow
    /\ ticks = 0
    /\ nextAllowedAt = 0
    /\ net = NetIdle
    /\ inflight = 0
    /\ hist = HistInit
    /\ caller = "fetchReplies"
    /\ faultsLeft \in {0, 1}
    /\ files = NoFiles
    /\ wr = WrIdle
    /\ run = RunNone
    /\ remote \in {0, 1}
    /\ \E token \in BOOLEAN :
           out = [op |-> "fetchReplies", pc |-> "call", token |-> token, p |-> 0,
                  all |-> <<>>, pages |-> <<>>]

\* fetchReplies is called: the one call without a token, page 1 with one
FetchRepliesCall ==
    /\ caller = "fetchReplies"
    /\ out.pc = "call"
    /\ net.pc = "idle"
    /\ out' = IF out.token THEN RepliesLoopHead(out, 1)
              ELSE [out EXCEPT !.pc = "await"]
    /\ net' = IF out.token
              THEN (IF out'.pc = "await" THEN NetStart(V2RepliesUrl(1, 1)) ELSE net)
              ELSE NetStart(RepliesUrl(1))
    /\ hist' = [hist EXCEPT !.calls = @ + 1, !.attempts = 0, !.fails = 0,
                            !.lastFail = NoError]
    /\ UNCHANGED <<cfg, clock, ticks, nextAllowedAt, inflight, caller, faultsLeft,
                   diskVars, run, remote>>

\* a call of fetchJsonWithRetry inside fetchReplies has returned or thrown
FetchRepliesPage ==
    /\ caller = "fetchReplies"
    /\ out.pc = "await"
    /\ net.pc \in {"ok", "err"}
    /\ IF net.pc = "err"
       THEN /\ out' = [out EXCEPT !.pc = "threw"]
            /\ net' = NetIdle
            /\ hist' = hist
       ELSE IF ~out.token
       THEN /\ out' = [out EXCEPT !.pc = "returned",
                                  !.all = IF IsArray(net.result)
                                          THEN net.result.v ELSE <<>>,
                                  !.pages = Append(@, [p |-> 0, body |-> net.result])]
            /\ net' = NetIdle
            /\ hist' = hist
       ELSE LET items == PageItemsOf(net.result)
                o1 == [out EXCEPT !.pages = Append(@, [p |-> out.p,
                                                       body |-> net.result])]
                o2 == IF Len(items) = 0
                      THEN [o1 EXCEPT !.pc = "returned"]
                      ELSE IF ShortPage(Len(items))
                      THEN [o1 EXCEPT !.pc = "returned", !.all = @ \o items]
                      ELSE RepliesLoopHead([o1 EXCEPT !.all = @ \o items],
                                           out.p + 1)
            IN /\ out' = o2
               /\ IF o2.pc = "await"
                  THEN /\ net' = NetStart(V2RepliesUrl(1, o2.p))
                       /\ hist' = [hist EXCEPT !.calls = @ + 1, !.attempts = 0,
                                               !.fails = 0, !.lastFail = NoError]
                  ELSE /\ net' = NetIdle
                       /\ hist' = hist
    /\ UNCHANGED <<cfg, clock, ticks, nextAllowedAt, inflight, caller, faultsLeft,
                   diskVars, run, remote>>

FetchRepliesNext ==
    \/ FetchRepliesCall
    \/ FetchRepliesPage
    \/ NetStep

SpecFetchReplies == FetchRepliesInit /\ [][FetchRepliesNext]_vars

(* ------------------------------------------------------------ a rerun ---- *)
\* A first run on an empty data directory in which nothing fails, then the
\* script is started again: a moment later, half the refresh TTL later, or
\* two TTLs later.  The second process may meet one failure.
RerunGaps == {1, HourMs \div 2, 2 * HourMs}

RerunInit ==
    /\ cfg \in Configs
    /\ clock = BaseNow
    /\ ticks = 0
    /\ nextAllowedAt = 0
    /\ net = NetIdle
    /\ inflight = 0
    /\ hist = HistInit
    /\ caller = "rerun"
    /\ faultsLeft = 0
    /\ files = NoFiles
    /\ wr = WrIdle
    /\ out = NoOut
    /\ run = [RunNone EXCEPT !.pc = "Start", !.n = 1]
    /\ remote \in {0, 1}

\* the process has exited and the script is started again: the module state
\* is new, the disk is what the first run left; out keeps what the first
\* run saw and left
NextRun ==
    /\ caller = "rerun"
    /\ run.pc = "Done"
    /\ run.n = 1
    /\ \E gap \in RerunGaps : clock' = clock + gap
    /\ out' = [op |-> "first", latest |-> run.latest, hot |-> run.hot,
               hotPool |-> run.hotPool, candidates |-> run.candidates,
               failed |-> Len(run.report.failed), files |-> files,
               finishedAt |-> clock]
    /\ run' = [RunNone EXCEPT !.pc = "Start", !.n = 2]
    /\ nextAllowedAt' = 0
    /\ net' = NetIdle
    /\ hist' = HistInit
    /\ faultsLeft' = 1
    /\ UNCHANGED <<cfg, ticks, inflight, caller, diskVars, remote>>

RerunNext ==
    \/ MainStep
    \/ NetStep
    \/ WrStep
    \/ NextRun

SpecRerun == RerunInit /\ [][RerunNext]_vars

(* ------------------------------------------------------------- claims ---- *)

(* ------------------------------- a topic that has dropped off the lists -- *)
\* Two runs on the disk of earlier runs in which topic 2 was on the hot list:
\* the pool still holds its entry, with or without a reply the lists showed
\* before it dropped off; its item document was fetched a moment or two hours
\* ago and carries the snapshot of its last listing or the one of a run that
\* found it in the pool only.
PoolEntries == {RemoteTopicAt(2, e) : e \in {0, 1}}

DroppedSnapshots == {Snapshot(2, 0, RemoteTopicAt(2, 0).last_modified),
                     Snapshot(2, 0, 0)}

DroppedDocs ==
    {[NoFiles EXCEPT ![ListPath("hot")] = Full(Arr(<<>>)),
                     ![HotPoolPath] = Full(Arr(<<entry>>)),
                     ![TopicPath(2)] =
                         Full(TopicDoc(<<RemoteTopicAt(2, 0)>>, BaseNow - age,
                                       <<snap>>)),
                     ![RepliesPath(2)] =
                         Full(RepliesDoc(<<>>, BaseNow - age, 0, 0))] :
        entry \in PoolEntries, snap \in DroppedSnapshots, age \in {1, 2 * HourMs}}

DroppedInit ==
    /\ cfg = [concurrency |-> 1, intervalMs |-> 1, refreshTtlHours |-> 1,
              retries |-> SyncRetries, hotPoolLimit |-> MaxPoolLimit,
              hotPoolTtlDays |-> 1]
    /\ clock = BaseNow
    /\ ticks = 0
    /\ nextAllowedAt = 0
    /\ net = NetIdle
    /\ inflight = 0
    /\ hist = HistInit
    /\ caller = "rerun"
    /\ faultsLeft = 0
    /\ files \in DroppedDocs
    /\ wr = WrIdle
    /\ out = NoOut
    /\ run = [RunNone EXCEPT !.pc = "Start", !.n = 1]
    /\ remote = 0

SpecDropped == DroppedInit /\ [][RerunNext]_vars

(* ------------------------------------------------- a run in an outage -- *)
\* One run on the disk of a complete earlier run, whose item document is
\* fresh or two hours old, while the list endpoints of the remote site are
\* unreliable: any attempt of a list call may fail, whatever else fails.
OutageDocs ==
    {[StoredDocs EXCEPT ![TopicPath(1)] =
          Full(TopicDoc(<<RemoteTopicAt(1, 0)>>, BaseNow - age,
                        <<Snapshot(1, 0, RemoteTopicAt(1, 0).last_modified)>>))] :
        age \in {1, 2 * HourMs}}

OutageInit ==
    /\ cfg = [concurrency |-> 1, intervalMs |-> 1, refreshTtlHours |-> 1,
              retries |-> SyncRetries, hotPoolLimit |-> MaxPoolLimit,
              hotPoolTtlDays |-> 1]
    /\ clock = BaseNow
    /\ ticks = 0
    /\ nextAllowedAt = 0
    /\ net = NetIdle
    /\ inflight = 0
    /\ hist = HistInit
    /\ caller = "main"
    /\ faultsLeft = 1
    /\ files \in OutageDocs
    /\ wr = WrIdle
    /\ out = NoOut
    /\ run = [RunNone EXCEPT !.pc = "Start", !.n = 1]
    /\ remote = 0

\* a list endpoint answers with a non-2xx status: caught, back off
RespondDown ==
    /\ net.pc = "inflight"
    /\ net.url[1] \in ListNames
    /\ net' = [net EXCEPT !.pc = "backoff",
                          !.lastError = CatchError(net.lastError, "HTTP status"),
                          !.wakeAt = clock + Backoff(net.i)]
    /\ hist' = [hist EXCEPT !.fails = @ + 1, !.failsAll = @ + 1,
                            !.lastFail = "HTTP status"]
    /\ inflight' = inflight - 1
    /\ UNCHANGED <<cfg, clock, ticks, nextAllowedAt, caller, faultsLeft, diskVars,
                   out, run, remote>>

OutageNext ==
    \/ MainStep
    \/ NetStep
    \/ RespondDown
    \/ WrStep

SpecOutage == OutageInit /\ [][OutageNext]_vars

(* ------------------------------------------ the backfill script, then sync -- *)
\* The backfill script at the head of its loop over the ids its collector
\* returned, on a data directory in which an earlier sync run may have left
\* the documents of topic 1; when it has exited, the sync script is started,
\* a moment or two hours later.  out is the frame of the backfill's main():
\* its position, its candidates, what it read for the current id, its
\* report, and (for observation) the disk it started from.
BackfillReportPath == <<"backfill_last_run", 0, "">>

\* {topic, meta: {fetched_at, source, reason: "backfill"}}: no list_snapshot
BackfillTopicDocWithSnapshot(topic, fetchedAt) ==
    TopicDoc(topic, fetchedAt,
             <<Snapshot(topic[1].id, topic[1].replies, topic[1].last_modified)>>)

BackfillTopicDoc(topic, fetchedAt) ==
    [t |-> "doc",
     v |-> <<[topic |-> topic, fetched_at |-> fetchedAt, list_snapshot |-> <<>>]>>]

\* {replies, meta: {fetched_at, source, reply_count, reason}}
BackfillRepliesDoc(replies, fetchedAt, replyCount) ==
    [t |-> "replies",
     v |-> <<[replies |-> replies, fetched_at |-> fetchedAt,
              reply_count |-> JsonNumber(replyCount)]>>]

\* CONFIG.forceRefresh || !existingRepliesDoc || the two counts differ
shouldFetchReplies(forceRefresh, repliesDoc, topic) ==
    \/ forceRefresh
    \/ repliesDoc.t = "null"
    \/ ~JsSame(NumberOf(Coalesce(DocReplyCount(repliesDoc), -1)),
               NumberOf(IF topic = <<>> THEN -2 ELSE Coalesce(topic[1].replies, -2)))

BackfillReportInit ==
    [candidates |-> 0, topic_detail_fetched |-> 0, topic_detail_skipped |-> 0,
     replies_fetched |-> 0, replies_skipped |-> 0, failed |-> <<>>]

\* the documents an earlier sync run can have left for topic 1
BackfillDisks ==
    {[NoFiles EXCEPT ![TopicPath(1)] = topicFile, ![RepliesPath(1)] = repliesFile] :
        topicFile \in {Missing, Full(StoredTopicDoc(1))},
        repliesFile \in {Missing, Full(StoredRepliesDoc(1))}}

BackfillCandidates == {<<1>>, <<2, 1>>}

BackfillInit ==
    /\ cfg = [concurrency |-> 1, intervalMs |-> 1, refreshTtlHours |-> 1,
              retries |-> 1, hotPoolLimit |-> MaxPoolLimit, hotPoolTtlDays |-> 1]
    /\ clock = BaseNow
    /\ ticks = 0
    /\ nextAllowedAt = 0
    /\ net = NetIdle
    /\ inflight = 0
    /\ hist = HistInit
    /\ caller = "backfill"
    /\ faultsLeft \in {0, 1}
    /\ files \in BackfillDisks
    /\ wr = WrIdle
    /\ run = RunNone
    /\ remote = 0
    /\ \E forceRefresh \in BOOLEAN, candidateIds \in BackfillCandidates :
           out = [op |-> "backfill", pc |-> "item", exit |-> 0,
                  forceRefresh |-> forceRefresh,
                  candidates |-> candidateIds, idx |-> 1,
                  existingTopicDoc |-> Null, existingRepliesDoc |-> Null,
                  topic |-> <<>>,
                  report |-> [BackfillReportInit EXCEPT
                                  !.candidates = Len(candidateIds)],
                  before |-> files]

\* the loop is over or goes to its next id
BackfillAt(o, idx) ==
    IF idx <= Len(o.candidates)
    THEN [o EXCEPT !.pc = "item", !.idx = idx]
    ELSE [o EXCEPT !.pc = "report", !.idx = idx]

\* catch (error) { report.failed.push(...) } and on to the next id
BackfillFail(o, error) ==
    BackfillAt([o EXCEPT !.report.failed =
                             Append(@, [topic_id |-> o.candidates[o.idx],
                                        error |-> error])],
               o.idx + 1)

\* the body of the loop up to its first fetch: read both documents; fetch the
\* detail when there is no topic or forceRefresh is set, else count the skip
\* and go on to the replies
BackfillItemBegin ==
    /\ caller = "backfill"
    /\ out.pc = "item"
    /\ net.pc = "idle"
    /\ LET id == out.candidates[out.idx]
           topicDoc == ReadJson(TopicPath(id), Null)
           repliesDoc == ReadJson(RepliesPath(id), Null)
           topic == DocTopic(topicDoc)
           o1 == [out EXCEPT !.existingTopicDoc = topicDoc,
                             !.existingRepliesDoc = repliesDoc,
                             !.topic = topic]
       IN IF topic = <<>> \/ out.forceRefresh
          THEN /\ out' = [o1 EXCEPT !.pc = "detail"]
               /\ net' = NetStart(TopicUrl(id))
               /\ hist' = [hist EXCEPT !.calls = @ + 1, !.attempts = 0,
                                       !.fails = 0, !.lastFail = NoError]
          ELSE IF shouldFetchReplies(out.forceRefresh, repliesDoc, topic)
          THEN /\ out' = [o1 EXCEPT !.pc = "replies",
                                    !.report.topic_detail_skipped = @ + 1]
               /\ net' = NetStart(RepliesUrl(id))
               /\ hist' = [hist EXCEPT !.calls = @ + 1, !.attempts = 0,
                                       !.fails = 0, !.lastFail = NoError]
          ELSE /\ out' = BackfillAt([o1 EXCEPT
                                         !.report.topic_detail_skipped = @ + 1,
                                         !.report.replies_skipped = @ + 1],
                                    out.idx + 1)
               /\ UNCHANGED <<net, hist>>
    /\ UNCHANGED <<cfg, clock, ticks, nextAllowedAt, inflight, caller, faultsLeft,
                   diskVars, run, remote>>

\* fetchTopic returns: an empty payload throws, a topic is written
BackfillDetailFetched ==
    /\ caller = "backfill"
    /\ out.pc = "detail"
    /\ net.pc \in {"ok", "err"}
    /\ LET id == out.candidates[out.idx]
           topic == fetchTopic(net.result)
       IN IF net.pc = "err"
          THEN /\ out' = BackfillFail(out, net.error)
               /\ wr' = wr
          ELSE IF topic = <<>>
          THEN /\ out' = BackfillFail(out, "Empty topic payload")
               /\ wr' = wr
          ELSE /\ out' = [out EXCEPT !.pc = "detailWrite", !.topic = topic]
               /\ wr' = WrStart(TopicPath(id), BackfillTopicDoc(topic, clock))
    /\ net' = NetIdle
    /\ UNCHANGED <<cfg, clock, ticks, nextAllowedAt, inflight, hist, caller,
                   faultsLeft, files, run, remote>>

\* the topic document is written: count it, then the replies if they are due
BackfillDetailWritten ==
    /\ caller = "backfill"
    /\ out.pc = "detailWrite"
    /\ wr.pc \in {"ok", "err"}
    /\ net.pc = "idle"
    /\ IF wr.pc = "err"
       THEN /\ out' = BackfillFail(out, "write failed")
            /\ UNCHANGED <<net, hist>>
       ELSE IF shouldFetchReplies(out.forceRefresh, out.existingRepliesDoc,
                                  out.topic)
       THEN /\ out' = [out EXCEPT !.pc = "replies",
                                  !.report.topic_detail_fetched = @ + 1]
            /\ net' = NetStart(RepliesUrl(out.candidates[out.idx]))
            /\ hist' = [hist EXCEPT !.calls = @ + 1, !.attempts = 0,
                                    !.fails = 0, !.lastFail = NoError]
       ELSE /\ out' = BackfillAt([out EXCEPT
                                      !.report.topic_detail_fetched = @ + 1,
                                      !.report.replies_skipped = @ + 1],
                                 out.idx + 1)
            /\ UNCHANGED <<net, hist>>
    /\ wr' = WrIdle
    /\ UNCHANGED <<cfg, clock, ticks, nextAllowedAt, inflight, caller, faultsLeft,
                   files, run, remote>>

\* fetchReplies returns (one call, a non-array counts as [])
BackfillRepliesFetched ==
    /\ caller = "backfill"
    /\ out.pc = "replies"
    /\ net.pc \in {"ok", "err"}
    /\ IF net.pc = "err"
       THEN /\ out' = BackfillFail(out, net.error)
            /\ wr' = wr
       ELSE LET replies == IF IsArray(net.result) THEN net.result.v ELSE <<>>
                replyCount == NumberOf(Coalesce(out.topic[1].replies, Len(replies)))
            IN /\ out' = [out EXCEPT !.pc = "repliesWrite"]
               /\ wr' = WrStart(RepliesPath(out.candidates[out.idx]),
                                BackfillRepliesDoc(replies, clock, replyCount))
    /\ net' = NetIdle
    /\ UNCHANGED <<cfg, clock, ticks, nextAllowedAt, inflight, hist, caller,
                   faultsLeft, files, run, remote>>

\* the replies document is written: count it, on to the next id
BackfillRepliesWritten ==
    /\ caller = "backfill"
    /\ out.pc = "repliesWrite"
    /\ wr.pc \in {"ok", "err"}
    /\ out' = IF wr.pc = "err"
              THEN BackfillFail(out, "write failed")
              ELSE BackfillAt([out EXCEPT !.report.replies_fetched = @ + 1],
                              out.idx + 1)
    /\ wr' = WrIdle
    /\ UNCHANGED <<cfg, clock, ticks, netVars, caller, faultsLeft, files, run,
                   remote>>

\* after the loop: finished_at and the write of the report
BackfillReport ==
    /\ caller = "backfill"
    /\ out.pc = "report"
    /\ wr.pc = "idle"
    /\ out' = [out EXCEPT !.pc = "reportWrite"]
    /\ wr' = WrStart(BackfillReportPath, [t |-> "report", v |-> <<out.report>>])
    /\ UNCHANGED <<cfg, clock, ticks, netVars, caller, faultsLeft, files, run,
                   remote>>

\* the report is written and main() returns, or main().catch sets exit code 1
BackfillReportWritten ==
    /\ caller = "backfill"
    /\ out.pc = "reportWrite"
    /\ wr.pc \in {"ok", "err"}
    /\ out' = IF wr.pc = "err" THEN [out EXCEPT !.pc = "exited", !.exit = 1]
              ELSE [out EXCEPT !.pc = "exited"]
    /\ wr' = WrIdle
    /\ UNCHANGED <<cfg, clock, ticks, netVars, caller, faultsLeft, files, run,
                   remote>>

\* the backfill process has exited and the sync script is started on the
\* disk it left: new module state, CONFIG of the sync script
SyncAfterBackfill ==
    /\ caller = "backfill"
    /\ out.pc = "exited"
    /\ run.pc = "none"
    /\ \E gap \in {1, 2 * HourMs} : clock' = clock + gap
    /\ cfg' = [cfg EXCEPT !.retries = SyncRetries]
    /\ run' = [RunNone EXCEPT !.pc = "Start", !.n = 1]
    /\ out' = [out EXCEPT !.pc = "sync"]
    /\ nextAllowedAt' = 0
    /\ net' = NetIdle
    /\ hist' = HistInit
    /\ UNCHANGED <<ticks, inflight, caller, faultsLeft, diskVars, remote>>

BackfillNext ==
    \/ BackfillItemBegin
    \/ BackfillDetailFetched
    \/ BackfillDetailWritten
    \/ BackfillRepliesFetched
    \/ BackfillRepliesWritten
    \/ BackfillReport
    \/ BackfillReportWritten
    \/ SyncAfterBackfill
    \/ MainStep
    \/ NetStep
    \/ WrStep

SpecBackfill == BackfillInit /\ [][BackfillNext]_vars

\* the positions of main() inside the per-item loop
LoopPcs == {"Item", "Detail", "DetailWrite", "Replies", "RepliesWrite"}
AfterLoopPcs == {"StatePersist", "StateWrite", "ReportWrite", "Done"}

\* the step main() is about to take fails for the current id: the detail or
\* comments fetch threw, the detail payload is empty, a document write threw
ItemFails ==
    \/ run.pc \in {"Detail", "Replies"} /\ net.pc = "err"
    \/ /\ run.pc = "Detail"
       /\ net.pc = "ok"
       /\ ~(IsArray(net.result) /\ Len(net.result.v) > 0)
    \/ run.pc \in {"DetailWrite", "RepliesWrite"} /\ wr.pc = "err"

FailedIds == {run.report.failed[i].topic_id : i \in 1..Len(run.report.failed)}

\* the ids the loop has entered so far are the candidates up to the current
\* one, each once and in order; after the loop they are all of them
C1_Visited ==
    /\ run.pc = "Item" =>
           run.visited = SubSeq(run.candidates, 1, run.idx - 1)
    /\ run.pc \in LoopPcs \ {"Item"} =>
           run.visited = SubSeq(run.candidates, 1, run.idx)
    /\ run.pc \in AfterLoopPcs =>
           /\ run.visited = run.candidates
           /\ \A i, j \in 1..Len(run.visited) :
                  run.visited[i] = run.visited[j] => i = j
    /\ run.pc \in LoopPcs \cup AfterLoopPcs =>
           FailedIds \subseteq Range(run.visited)

\* a step of main() inside the loop never ends the run; a failing one appends
\* the current id to the failed list and moves on to the next id or, after
\* the last id, to StatePersist
C1_Step ==
    (run.pc \in LoopPcs /\ run' # run) =>
        /\ run'.pc \in LoopPcs \cup {"StatePersist"}
        /\ ItemFails =>
               /\ Len(run'.report.failed) = Len(run.report.failed) + 1
               /\ run'.report.failed[Len(run'.report.failed)].topic_id
                      = run.candidates[run.idx]
               /\ run'.idx = run.idx + 1
               /\ run'.pc = IF run.idx < Len(run.candidates)
                            THEN "Item" ELSE "StatePersist"

\* C1: a failure while processing one candidate id in the per-item loop
\* (detail fetch error, empty payload, comments fetch error, document write
\* error) is caught and recorded in the report's failed list and the loop goes
\* on: every candidate id is visited exactly once, and the loop is left only
\* for StatePersist, whatever subset of ids fail.
C1_FailureIsolation == []C1_Visited /\ [][C1_Step]_vars

\* the first of two candidates failed, the second was refreshed, and the run
\* is at StatePersist
C1_Witness ==
    /\ run.pc = "StatePersist"
    /\ Len(run.candidates) = 2
    /\ FailedIds = {run.candidates[1]}
    /\ run.report.refreshed = 1

\* C3: at every moment of a sync run at most one outbound request is in
\* flight, for every value of the configured concurrency (the runs are taken
\* with concurrency 1 and with a higher one), and a request is in flight only
\* while the one call of fetchJsonWithRetry awaits it.
C3_OneInFlight ==
    /\ inflight <= 1
    /\ inflight = 1 <=> net.pc = "inflight"

\* a run configured with a concurrency above one has a request in flight
\* inside the per-item loop
C3_Witness ==
    /\ cfg.concurrency > 1
    /\ inflight = 1
    /\ run.pc \in {"Detail", "Replies"}

\* C2: of any two consecutive request attempts (first attempts and retries,
\* across calls), the second is sent no earlier than intervalMs after the
\* instant at which the gate was set for the first; and every attempt is sent
\* with the gate set to the instant of its own pass plus intervalMs.
C2_GateSpacing ==
    /\ hist.sent >= 2 => hist.issuedAt >= hist.prevIssuedGate + cfg.intervalMs
    /\ net.pc \in {"send", "inflight"} =>
          /\ nextAllowedAt = hist.gateNow + cfg.intervalMs
          /\ hist.gateNow <= clock

\* a first attempt of a second call, sent exactly intervalMs after the gate of
\* the attempt before it
C2_Witness ==
    /\ cfg.intervalMs > 0
    /\ hist.calls = 2
    /\ hist.attempts = 1
    /\ net.pc = "inflight"
    /\ hist.issuedAt = hist.prevIssuedGate + cfg.intervalMs

\* C4: one call of fetchJsonWithRetry makes at most `retries` attempts; it
\* returns the body of the first attempt that succeeds (all attempts before
\* it failed); when every attempt fails it throws the error of the last one.
C4_RetryContract ==
    /\ hist.attempts <= cfg.retries
    /\ net.pc = "ok" =>
          /\ hist.attempts = hist.fails + 1
          /\ net.result \in NetBodies(net.url)
    /\ net.pc = "err" =>
          /\ hist.fails = cfg.retries
          /\ hist.attempts = cfg.retries
          /\ hist.fails > 0 => net.error = hist.lastFail
    /\ net.pc \in {"wait", "sleep", "send", "inflight"} => hist.fails = net.i

\* all three attempts failed, with different errors, and the call throws
C4_Witness ==
    /\ net.pc = "err"
    /\ cfg.retries = 3
    /\ hist.fails = 3
    /\ net.error = "bad body"
    /\ net.error = hist.lastFail

\* C5: a document is never visible half-written.  Whatever step a write is
\* at, and also after a kill, the document holds the complete previous
\* content or the complete new content, a read never sees a cut-off text, and
\* no step changes a document other than by the rename that installs the new
\* content; only the .tmp file can be left behind.
C5_DocComplete ==
    /\ \A p \in Paths : p[3] = "" => files[p].st # "partial"
    /\ wr.pc # "idle" => files[wr.path] \in {wr.before, Full(wr.data)}
    /\ out.op = "read" => out.content.st # "partial"

C5_OnlyRenameInstalls ==
    \A p \in Paths :
        (p[3] = "" /\ files'[p] # files[p]) =>
            /\ wr.pc = "rename"
            /\ p = wr.path
            /\ files'[p] = Full(wr.data)

C5_AtomicWrite == []C5_DocComplete /\ [][C5_OnlyRenameInstalls]_vars

\* killed while the temporary file was half-written over an existing
\* document: a later read gives the previous content
C5_Witness ==
    /\ caller = "dead"
    /\ wr.pc = "killed"
    /\ wr.before.st = "full"
    /\ wr.before.data # wr.data
    /\ files[TmpPath(wr.path)].st = "partial"
    /\ out.op = "read"
    /\ out.afterKill
    /\ out.path = wr.path
    /\ out.content = wr.before

\* the pool a merge produced: what it hands to the write and returns
MergedPool == IF run.pc = "PoolWrite" THEN wr.data.v ELSE run.hotPool.v
PoolMerged == run.pc \in {"PoolWrite", "ListNodes"}
PoolInputLen == Len(OrEmpty(run.prevPool).v) + Len(OrEmpty(run.hot).v)

\* C6 (as claimed): after every merge the pool has no two entries with the
\* same id and at most hotPoolLimit entries.
C6_Original ==
    PoolMerged =>
        /\ DistinctIds(MergedPool)
        /\ Len(MergedPool) <= cfg.hotPoolLimit

\* C6 (amended): after every merge the pool has no two entries with the same
\* id and at most max(1, hotPoolLimit) entries, and the pool file holds
\* exactly that pool once the write is over.
C6_PoolBounded ==
    PoolMerged =>
        /\ DistinctIds(MergedPool)
        /\ Len(MergedPool) <= Max(1, cfg.hotPoolLimit)
        /\ \A e \in Range(MergedPool) : ValidId(e)
        /\ run.pc = "ListNodes" => files[HotPoolPath] = Full(Arr(MergedPool))

\* an id came in twice and the cap cut an entry off
C6_Witness ==
    /\ run.pc = "ListNodes"
    /\ PoolInputLen = 3
    /\ Len(run.merged) = 2
    /\ Len(run.pruned) = 2
    /\ Len(run.hotPool.v) = 1

\* a freshness timestamp is usable when it is a positive number
UsableStamp(item) == IsFinite(topicFreshness(item)) /\ topicFreshness(item) > 0
AgeMs(item) == run.poolNow - topicFreshness(item) * MsPerSec

\* C7: after the TTL prune every surviving entry with a usable freshness
\* timestamp has age now - timestamp <= hotPoolTtlDays, the prune removes no
\* entry whose age is within that window, and it adds and reorders nothing.
C7_PruneWindow ==
    PoolMerged =>
        /\ \A e \in Range(run.pruned) :
              UsableStamp(e) => AgeMs(e) <= cfg.hotPoolTtlDays * DayMs
        /\ \A e \in Range(run.merged) :
              (UsableStamp(e) /\ AgeMs(e) <= cfg.hotPoolTtlDays * DayMs)
                  => e \in Range(run.pruned)
        /\ Range(run.pruned) \subseteq Range(run.merged)

\* TTL one day: a two-day-old and a fresh entry merged with an empty fresh
\* list leave only the fresh entry
C7_Witness ==
    /\ run.pc = "ListNodes"
    /\ cfg.hotPoolTtlDays = 1
    /\ OrEmpty(run.hot).v = <<>>
    /\ Len(run.merged) = 2
    /\ \E e \in Range(run.merged) : UsableStamp(e) /\ AgeMs(e) = 2 * DayMs
    /\ Len(run.pruned) = 1
    /\ UsableStamp(run.pruned[1])
    /\ AgeMs(run.pruned[1]) = 0

\* no usable timestamp: each of the three fields is missing, zero, negative
\* or not a number
NoUsableStamp(item) ==
    \A f \in {item.last_touched, item.last_modified, item.created} :
        f = Absent \/ f = NaN \/ f <= 0

\* C8: the TTL prune never removes an entry that has no usable freshness
\* timestamp, whatever hotPoolTtlDays and the clock are.
C8_NoStampKept ==
    PoolMerged =>
        \A e \in Range(run.merged) : NoUsableStamp(e) => e \in Range(run.pruned)

\* TTL zero, a clock past every timestamp: the entry without a timestamp is
\* the only one left
C8_Witness ==
    /\ run.pc = "ListNodes"
    /\ cfg.hotPoolTtlDays = 0
    /\ Len(run.merged) = 2
    /\ Len(run.pruned) = 1
    /\ NoUsableStamp(run.pruned[1])

\* the ids of the items of a list
IdsOf(items) == {NumberOf(items[i].id) : i \in 1..Len(items)}

\* an entry of the previous pool that is absent from the fresh hot list and
\* whose freshness timestamp is within the TTL
StillTracked(item) ==
    /\ ValidId(item)
    /\ NumberOf(item.id) \notin IdsOf(OrEmpty(run.hot).v)
    /\ UsableStamp(item)
    /\ AgeMs(item) <= HotPoolTtlMs

\* the entry is among the entries the cap lets through
WithinCap(item) ==
    \E k \in 1..JsMax(1, cfg.hotPoolLimit) :
        k <= Len(run.pruned) /\ run.pruned[k].id = item.id

\* updateHotPool has returned to main()
PoolReturned == run.hotPool.t = "arr"

\* C9 (as claimed): an entry of the previous pool that is absent from the
\* fresh hot list and within the TTL is kept in the new pool, and its id is
\* in the candidate set and goes through the loop.
C9_Original ==
    PoolReturned =>
        \A i \in 1..Len(OrEmpty(run.prevPool).v) :
            LET item == OrEmpty(run.prevPool).v[i]
            IN StillTracked(item) =>
                   /\ NumberOf(item.id) \in IdsOf(run.hotPool.v)
                   /\ run.pc \in LoopPcs \cup AfterLoopPcs =>
                          NumberOf(item.id) \in Range(run.candidates)
                   /\ run.pc \in AfterLoopPcs =>
                          NumberOf(item.id) \in Range(run.visited)

\* C9 (amended): such an entry is in the new pool exactly when it is among
\* the first max(1, hotPoolLimit) entries of the merged and pruned pool in
\* descending freshness; when it is, and the run builds its candidate set,
\* its id is a candidate and goes through the loop.
C9_TrackedUnlessCapped ==
    PoolReturned =>
        \A i \in 1..Len(OrEmpty(run.prevPool).v) :
            LET item == OrEmpty(run.prevPool).v[i]
            IN StillTracked(item) =>
                   /\ NumberOf(item.id) \in IdsOf(run.hotPool.v)
                          <=> WithinCap(item)
                   /\ (WithinCap(item) /\ run.pc \in LoopPcs \cup AfterLoopPcs) =>
                          NumberOf(item.id) \in Range(run.candidates)
                   /\ (WithinCap(item) /\ run.pc \in AfterLoopPcs) =>
                          NumberOf(item.id) \in Range(run.visited)

\* a pool entry that left the hot list was kept beside the topic that is hot
\* now, and the loop has gone through it
C9_Witness ==
    /\ run.pc = "StatePersist"
    /\ Len(run.hotPool.v) = 2
    /\ \E i \in 1..Len(OrEmpty(run.prevPool).v) :
           /\ StillTracked(OrEmpty(run.prevPool).v[i])
           /\ NumberOf(OrEmpty(run.prevPool).v[i].id) \in Range(run.visited)

\* there is nothing to compare with: no document, a document without its
\* topic, or a fetched_at that is missing or unreadable
NoUsableDoc(doc) ==
    \/ doc.t = "null"
    \/ doc.v[1].topic = <<>>
    \/ doc.v[1].fetched_at \in {Absent, NaN}

\* C10: decideRefreshTopic returns true whenever there is no existing item
\* document, the document has no topic, or its fetched_at cannot be parsed,
\* for every list snapshot, now and ttl.
C10_RefreshWithoutDoc ==
    (out.op = "decided" /\ NoUsableDoc(out.doc)) => out.result = TRUE

\* a document with an unreadable fetched_at whose recorded snapshot equals
\* the current one is refreshed all the same
C10_Witness ==
    /\ out.op = "decided"
    /\ out.doc.t = "doc"
    /\ out.doc.v[1].topic # <<>>
    /\ out.doc.v[1].fetched_at = NaN
    /\ out.doc.v[1].list_snapshot = <<out.listSnapshot>>
    /\ out.result = TRUE

\* the document's fetched_at is readable and within the TTL of now
WithinTtl(doc, now, ttlMs) ==
    /\ IsFinite(DocFetchedAt(doc))
    /\ now - DocFetchedAt(doc) <= ttlMs

\* the document records a list snapshot whose reply count and last_modified
\* are the numbers of the current one
SameSnapshot(doc, listSnapshot) ==
    /\ doc.t = "doc"
    /\ doc.v[1].list_snapshot # <<>>
    /\ IsNum(doc.v[1].list_snapshot[1].replies)
    /\ doc.v[1].list_snapshot[1].replies = listSnapshot.replies
    /\ IsNum(doc.v[1].list_snapshot[1].last_modified)
    /\ doc.v[1].list_snapshot[1].last_modified = listSnapshot.last_modified

\* C11 (as claimed): decideRefreshTopic returns false whenever the existing
\* document's fetched_at is within the TTL and its recorded list snapshot
\* equals the current one.
C11_Original ==
    (/\ out.op = "decided"
     /\ WithinTtl(out.doc, out.now, out.ttlMs)
     /\ SameSnapshot(out.doc, out.listSnapshot)) => out.result = FALSE

\* C11 (amended): decideRefreshTopic returns false whenever the existing
\* document has its topic, its fetched_at is within the TTL
\* (now - fetched_at <= ttl) and its recorded list snapshot equals the
\* current one.
C11_SkipUnchanged ==
    (/\ out.op = "decided"
     /\ DocTopic(out.doc) # <<>>
     /\ WithinTtl(out.doc, out.now, out.ttlMs)
     /\ SameSnapshot(out.doc, out.listSnapshot)) => out.result = FALSE

\* a document fetched exactly one TTL ago with an unchanged snapshot is skipped
C11_Witness ==
    /\ out.op = "decided"
    /\ DocTopic(out.doc) # <<>>
    /\ out.ttlMs = HourMs
    /\ out.now - DocFetchedAt(out.doc) = out.ttlMs
    /\ SameSnapshot(out.doc, out.listSnapshot)
    /\ out.result = FALSE

\* the id the loop is at
CurId == run.candidates[run.idx]

\* at the head of the loop body: the document on disk has its topic, is
\* within the TTL and records the snapshot the lists show now
Skippable ==
    LET doc == ReadJson(TopicPath(CurId), Null)
    IN /\ DocTopic(doc) # <<>>
       /\ WithinTtl(doc, run.now, RefreshTtlMs)
       /\ SameSnapshot(doc, snapshotFromLists(CurId, run.latest, run.hot))

\* the step that skips counts one skip and no refresh, starts no detail
\* request and writes nothing
C12_SkipStep ==
    (run.pc = "Item" /\ Skippable /\ run' # run) =>
        /\ run'.report.skipped = run.report.skipped + 1
        /\ run'.report.refreshed = run.report.refreshed
        /\ run'.pc \in {"Item", "Replies", "StatePersist"}
        /\ net'.url[1] # "topic"
        /\ files' = files
        /\ wr' = wr

\* what is left to do for a skipped id (its comments) asks for no detail,
\* leaves its document alone and counts nothing more
C12_AfterSkip ==
    (run.pc \in {"Replies", "RepliesWrite"} /\ ~run.shouldRefreshTopic) =>
        /\ run'.report.skipped = run.report.skipped
        /\ run'.report.refreshed = run.report.refreshed
        /\ net'.url[1] # "topic"
        /\ files'[TopicPath(CurId)] = files[TopicPath(CurId)]
        /\ files'[TopicPath(CurId)] = Full(run.existingTopicDoc)

\* C12: when an item is skipped by the refresh policy (its document within
\* the TTL, the snapshot unchanged) the run counts one skip for it, issues no
\* request for its detail, leaves its document on disk unchanged and does not
\* count a refresh.
C12_SkipFrame == [][C12_SkipStep /\ C12_AfterSkip]_vars

\* the one candidate was skipped and the run is past the loop
C12_Witness ==
    /\ run.pc = "StatePersist"
    /\ run.candidates = <<1>>
    /\ run.report.skipped = 1
    /\ run.report.refreshed = 0
    /\ ~run.shouldRefreshTopic
    /\ files[TopicPath(1)] = Full(StoredTopicDoc(1))

\* the list fetchAndPersistList is working on, and what its file holds
CurList == ListNameOf(run.pc)
OnDisk(name) == ReadJson(ListPath(name), Arr(<<>>))

\* the fetch of the list has failed on every attempt and main() takes the
\* result
ListFetchFailed == run.pc \in ListPcs /\ run.sub = "net" /\ net.pc = "err"

\* the step that falls back: the previous content of the file (empty when
\* there is none) is returned and counted, the outcome is tagged fallback,
\* no file changes, the outcomes of the other lists stay as they are, and
\* main() goes on with what follows the list
C13_FallbackStep ==
    (ListFetchFailed /\ run' # run) =>
        /\ run'.report.lists[CurList] =
               [status |-> "fallback", count |-> CountOf(OnDisk(CurList)),
                error |-> net.error]
        /\ \A other \in (ListNames \cup {"hot_pool"}) \ {CurList} :
               run'.report.lists[other] = run.report.lists[other]
        /\ files' = files
        /\ wr' = wr
        /\ run.pc = "ListLatest" =>
               run'.pc = "ListHot" /\ run'.latest = OnDisk("latest")
        /\ run.pc = "ListHot" =>
               run'.pc = "PoolMerge" /\ run'.hot = OnDisk("hot")
        /\ run.pc = "ListNodes" => run'.pc = "CandidateBuild"

\* a list was fetched whether or not the list before it fell back
C13_Independent ==
    \A name \in ListNames :
        run.report.lists[name].status = "fetched" =>
            /\ files[ListPath(name)].st = "full"
            /\ run.report.lists[name].count = CountOf(files[ListPath(name)].data)

\* the run has fallen back for a list it is about to use
UsesFallback ==
    \/ run.pc = "PoolMerge" /\ run.report.lists["hot"].status = "fallback"
    \/ run.pc = "CandidateBuild" /\ run.report.lists["latest"].status = "fallback"

\* the fallback the run is about to use is a list
FallbackIsList ==
    \/ run.pc = "PoolMerge" /\ Iterable(OrEmpty(run.hot))
    \/ run.pc = "CandidateBuild" /\ Iterable(OrEmpty(run.latest))

\* C13 (as claimed): when the fetch of a list fails on every attempt the
\* previous on-disk content is returned and tagged fallback, the file is left
\* alone, the other lists' outcomes do not change, and the run continues to
\* the pool merge and the candidate building with the fallback data.
C13_Original ==
    /\ []C13_Independent
    /\ [][C13_FallbackStep]_vars
    /\ [][(UsesFallback /\ run' # run) => run'.pc # "aborted"]_vars

\* what the code does: the run goes on with the fallback exactly when that
\* content is a JSON array or null (or there is no file); previous content
\* of another shape is returned all the same and ends the run with an error
\* where it is spread.
C13_ListFallback ==
    /\ []C13_Independent
    /\ [][C13_FallbackStep]_vars
    /\ [][(UsesFallback /\ run' # run)
              => (run'.pc # "aborted" <=> FallbackIsList)]_vars

\* latest fell back to the object its file held, the other lists were
\* synchronized, and the run has ended with an error before any candidate
C13_Witness ==
    /\ run.pc = "aborted"
    /\ run.report.lists["latest"].status = "fallback"
    /\ run.latest = Obj
    /\ run.report.lists["hot"].status = "fetched"
    /\ run.report.lists["nodes"].status = "fetched"
    /\ run.report.candidates = 0

\* the position of the first item of items whose id is id
FirstAt(items, id) ==
    CHOOSE i \in 1..Len(items) :
        /\ NumberOf(items[i].id) = id
        /\ \A j \in 1..(i - 1) : NumberOf(items[j].id) # id

\* the finite, positive ids of items
ValidIdsOf(items) ==
    {NumberOf(items[i].id) : i \in {k \in 1..Len(items) :
        IsFinite(NumberOf(items[k].id)) /\ NumberOf(items[k].id) > 0}}

\* C14: dedupeTopicIds returns a sequence in which no id occurs twice, which
\* holds exactly the valid (finite, positive) ids of its input, in the order
\* of each id's first occurrence in the input.
C14_DedupeOrdered ==
    out.op = "deduped" =>
        /\ \A i, j \in 1..Len(out.result) :
               out.result[i] = out.result[j] => i = j
        /\ Range(out.result) = ValidIdsOf(out.items)
        /\ \A i, j \in 1..Len(out.result) :
               i < j => FirstAt(out.items, out.result[i])
                            < FirstAt(out.items, out.result[j])

\* an input with an invalid id first and an id that comes back after another
C14_Witness ==
    /\ out.op = "deduped"
    /\ Len(out.items) = 3
    /\ ~ValidId(out.items[1])
    /\ out.items[2].id = 2
    /\ out.items[3].id = 2
    /\ out.result = <<2>>

\* the comments documents on disk
RepliesDocsOnDisk ==
    {files[RepliesPath(id)].data : id \in {i \in TopicIds :
        /\ files[RepliesPath(i)].st = "full"
        /\ files[RepliesPath(i)].data.t = "replies"}}

\* C15: in every comments document a sync run writes, meta.partial is true
\* if and only if meta.fetched_count < meta.total_count (a total that is not
\* a number, written as null, is above no count), for every combination of
\* the two counts.
C15_PartialFlag ==
    \A doc \in RepliesDocsOnDisk :
        doc.v[1].partial <=>
            (/\ IsNum(doc.v[1].total_count)
             /\ doc.v[1].fetched_count < doc.v[1].total_count)

\* a document with 1 comment fetched of 2 is on disk, flagged partial
C15_Witness ==
    \E doc \in RepliesDocsOnDisk :
        /\ doc.v[1].fetched_count = 1
        /\ doc.v[1].total_count = 2
        /\ doc.v[1].partial

\* the run is over; it began on an empty data directory, latest gave the
\* one topic 1 and hot gave nothing, and no request or write has failed
FirstRunAllOk ==
    /\ run.pc = "Done"
    /\ run.previousState = Obj
    /\ run.prevPool = Arr(<<>>)
    /\ \A name \in ListNames : run.report.lists[name].status = "fetched"
    /\ run.latest = Arr(<<RemoteTopic(1)>>)
    /\ run.hot = Arr(<<>>)
    /\ faultsLeft = cfg.retries
    /\ run.report.failed = <<>>

\* C16: starting from empty local state, with the remote returning one item
\* (id 1) for latest and an empty hot list and every request succeeding, the
\* run has exactly one candidate (id 1), issues exactly one detail request
\* and exactly one comments request, and writes a state file with candidate
\* ids [1] and refreshed count 1.
C16_FirstRun ==
    FirstRunAllOk =>
        /\ run.candidates = <<1>>
        /\ run.report.candidates = 1
        /\ hist.sentTopic = 1
        /\ hist.sentReplies = 1
        /\ hist.sent = 5
        /\ run.report.refreshed = 1
        /\ run.report.skipped = 0
        /\ files[StatePath].st = "full"
        /\ files[StatePath].data.t = "state"
        /\ files[StatePath].data.v[1].candidate_topic_ids = <<1>>
        /\ files[StatePath].data.v[1].refreshed_topic_count = 1
        /\ files[StatePath].data.v[1].failed_topic_count = 0
        /\ files[TopicPath(1)].st = "full"
        /\ files[RepliesPath(1)].st = "full"

\* such a run has ended
C16_Witness ==
    /\ FirstRunAllOk
    /\ files[StatePath].st = "full"
    /\ files[LastRunPath].st = "full"

\* the kinds of URL and of file that belong to the lists and to the items
ListKinds == {"latest", "hot", "nodes"}
ItemKinds == {"topic", "replies"}

\* before the loop no item-level operation has begun: no id has been entered,
\* no request for a detail or for comments is or has been out, no item or
\* comments document is being written
C17_NoItemWorkYet ==
    run.pc \in {"Start", "PoolMerge", "PoolWrite", "CandidateBuild"} \cup ListPcs =>
        /\ run.visited = <<>>
        /\ hist.sentTopic = 0
        /\ hist.sentReplies = 0
        /\ net.url[1] \notin ItemKinds
        /\ wr.path[1] \notin ItemKinds

\* in the loop every list synchronization has ended: each list has its
\* outcome, no list request is out and no list file is being written
C17_ListsDone ==
    run.pc \in LoopPcs =>
        /\ \A name \in ListNames :
               run.report.lists[name].status \in {"fetched", "fallback"}
        /\ net.url[1] \notin ListKinds
        /\ wr.path[1] \notin ListKinds

\* and from then on no list outcome and no list file changes
C17_ListsFrozen ==
    run.pc \in LoopPcs =>
        /\ run'.report.lists = run.report.lists
        /\ \A name \in ListNames : files'[ListPath(name)] = files[ListPath(name)]

\* C17: within a run every list synchronization (latest, hot, nodes) has
\* finished before the first item-level operation (reading, deciding,
\* fetching or writing an item or comments document) begins.
C17_ListsBeforeItems ==
    /\ [](C17_NoItemWorkYet /\ C17_ListsDone)
    /\ [][C17_ListsFrozen]_vars

\* the loop is at its first id with the three lists done, one of them by
\* fallback
C17_Witness ==
    /\ run.pc = "Item"
    /\ run.idx = 1
    /\ run.visited = <<>>
    /\ run.report.lists["latest"].status = "fetched"
    /\ run.report.lists["hot"].status = "fetched"
    /\ run.report.lists["nodes"].status = "fallback"

\* the phase a position of main() belongs to, numbered in the order Init,
\* ListSync, PoolMerge, CandidateBuild, PerItemRefresh, StatePersist, Done;
\* a run that has ended with an error is in no phase
PhaseOf(pc) ==
    IF pc = "Start" THEN 0
    ELSE IF pc \in ListPcs THEN 1
    ELSE IF pc \in {"PoolMerge", "PoolWrite"} THEN 2
    ELSE IF pc = "CandidateBuild" THEN 3
    ELSE IF pc \in LoopPcs THEN 4
    ELSE IF pc \in {"StatePersist", "StateWrite", "ReportWrite"} THEN 5
    ELSE 6

\* the same with the synchronization of the nodes list as a phase of its own
\* between PoolMerge and CandidateBuild
StepOf(pc) ==
    IF pc = "Start" THEN 0
    ELSE IF pc \in {"ListLatest", "ListHot"} THEN 1
    ELSE IF pc \in {"PoolMerge", "PoolWrite"} THEN 2
    ELSE IF pc = "ListNodes" THEN 3
    ELSE IF pc = "CandidateBuild" THEN 4
    ELSE IF pc \in LoopPcs THEN 5
    ELSE IF pc \in {"StatePersist", "StateWrite", "ReportWrite"} THEN 6
    ELSE 7

\* C18 (as claimed): a run goes through Init, ListSync, PoolMerge,
\* CandidateBuild, PerItemRefresh, StatePersist, Done in this order and never
\* back: no step leads from a phase to an earlier one.
C18_Original ==
    [][run'.pc # "aborted" => PhaseOf(run'.pc) >= PhaseOf(run.pc)]_vars

\* C18 (amended): a run goes through Init, ListSync of latest and hot,
\* PoolMerge, ListSync of nodes, CandidateBuild, PerItemRefresh, StatePersist,
\* Done in this order and never back; each step stays in its phase or enters
\* the next one, except that a run without candidates passes from
\* CandidateBuild straight to StatePersist, and that an error outside the
\* loop ends the run.
C18_PhaseOrder ==
    [][run'.pc # "aborted" =>
          \/ StepOf(run'.pc) = StepOf(run.pc)
          \/ StepOf(run'.pc) = StepOf(run.pc) + 1
          \/ /\ run.pc = "CandidateBuild"
             /\ run'.pc = "StatePersist"
             /\ run'.candidates = <<>>]_vars

\* a run has gone through every phase and refreshed a topic
C18_Witness ==
    /\ run.pc = "Done"
    /\ run.report.lists["hot_pool"].status = "updated"
    /\ run.report.lists["nodes"].status = "fetched"
    /\ run.report.refreshed = 1

\* no file operation of the run has failed: every fault spent went into a
\* request attempt
NoFileFault == faultsLeft + hist.failsAll = cfg.retries

\* the requests of a run are bounded: each call makes at most `retries`
\* attempts, and there are at most three list calls and two calls for each
\* candidate
C19_Bounded ==
    /\ hist.attempts <= cfg.retries
    /\ net.i <= cfg.retries
    /\ hist.calls <= 3 + 2 * Len(run.candidates)
    /\ hist.sent <= cfg.retries * (3 + 2 * Len(run.candidates))
    /\ Len(run.candidates) <= MaxId

SameListsAgain ==
    /\ out.op = "first"
    /\ run.n = 2
    /\ run.pc \in LoopPcs \cup AfterLoopPcs
    /\ run.latest = out.latest
    /\ run.hot = out.hot
    /\ out.failed = 0
    /\ run.now - out.finishedAt <= RefreshTtlMs

\* the second run asks for no detail and no comments and leaves every item
\* and comments document as the first run left it; past the loop it has
\* skipped every candidate
RerunSkipsAll ==
    /\ hist.sentTopic = 0
    /\ hist.sentReplies = 0
    /\ run.report.refreshed = 0
    /\ run.report.failed = <<>>
    /\ \A id \in TopicIds :
           /\ files[TopicPath(id)] = out.files[TopicPath(id)]
           /\ files[RepliesPath(id)] = out.files[RepliesPath(id)]
    /\ run.pc \in AfterLoopPcs => run.report.skipped = Len(run.candidates)

StateAndReportWritten ==
    /\ files[StatePath] =
           Full(StateDoc(run.report.finished_at, run.candidates,
                         run.report.refreshed, Len(run.report.failed),
                         PreviousSuccess(run.previousState)))
    /\ files[LastRunPath] = Full([t |-> "report", v |-> <<run.report>>])

\* a step of the loop stays in the loop or leaves it for the state document
C21_LoopStep ==
    run.pc \in LoopPcs =>
        /\ run'.pc \in LoopPcs \cup {"StatePersist"}
        /\ run'.exit = 0

\* past the loop the run is given up only when the write of the state or of
\* the report document fails
C21_AfterLoopStep ==
    (run.pc \in AfterLoopPcs /\ run'.pc = "aborted") =>
        /\ run.pc \in {"StateWrite", "ReportWrite"}
        /\ wr.pc = "err"

\* C21 (as claimed): once the per-item loop has started, no network, payload
\* or persistence failure makes the run end with a non-zero exit status or
\* without writing the state and report documents.
C21_Original ==
    /\ [][run.pc \in LoopPcs \cup AfterLoopPcs =>
              run'.exit = 0 /\ run'.pc # "aborted"]_vars
    /\ [](run.pc = "Done" => StateAndReportWritten)

\* C21 (amended): inside the per-item loop no network, payload or
\* persistence failure is fatal: the loop always goes on to the state
\* document with exit status 0.  After the loop the run ends with status 1
\* only when the write of the state or the report document itself fails, and
\* a run that returns has written both.
C21_OnlyFinalWritesFatal ==
    /\ [][C21_LoopStep /\ C21_AfterLoopStep]_vars
    /\ [](run.pc = "Done" => run.exit = 0 /\ StateAndReportWritten)

\* a run that lost an item to a failed write and still returned with both
\* documents written
C21_Witness ==
    /\ run.pc = "Done"
    /\ run.exit = 0
    /\ \E i \in 1..Len(run.report.failed) :
           run.report.failed[i].error = "write failed"
    /\ StateAndReportWritten

\* the item of the one candidate is available: refreshed in this run, or
\* skipped with the topic of its document
ItemAvailable == run.report.refreshed = 1 \/ run.report.skipped = 1

\* the remembered reply count is not the item's current reply count
CountsDiffer ==
    LET remembered == DocReplyCount(run.existingRepliesDoc)
        current == IF run.topic = <<>> THEN Absent ELSE run.topic[1].replies
    IN ~(IsNum(remembered) /\ IsNum(current) /\ remembered = current)

CommentsNeeded ==
    \/ run.report.refreshed = 1
    \/ run.existingRepliesDoc.t = "null"
    \/ CountsDiffer

\* C22: for a candidate whose item is available, comments are fetched again
\* if and only if the item was refreshed in this run, or no comments
\* document exists, or the reply count the comments document remembers
\* differs from the item's current reply count; otherwise no comments
\* request is issued and the comments document is unchanged.
C22_CommentsRefresh ==
    (run.visited # <<>> /\ caller = "main" /\ Len(run.candidates) = 1) =>
        /\ hist.sentReplies > 0 => ItemAvailable /\ CommentsNeeded
        /\ (run.pc = "StatePersist" /\ ItemAvailable /\ CommentsNeeded) =>
               hist.sentReplies > 0
        /\ (ItemAvailable /\ ~CommentsNeeded) =>
               /\ hist.sentReplies = 0
               /\ files[RepliesPath(1)] = Full(run.existingRepliesDoc)

\* a skipped item whose comments document remembers another reply count: the
\* comments were requested again
C22_Witness ==
    /\ run.pc = "StatePersist"
    /\ run.report.skipped = 1
    /\ run.existingRepliesDoc.t = "replies"
    /\ IsNum(DocReplyCount(run.existingRepliesDoc))
    /\ IsNum(run.topic[1].replies)
    /\ CountsDiffer
    /\ hist.sentReplies = 1

\* a skipped item whose comments document remembers the same count: nothing
\* was requested
C22_WitnessUnchanged ==
    /\ run.pc = "StatePersist"
    /\ run.report.skipped = 1
    /\ ~CommentsNeeded
    /\ hist.sentReplies = 0

\* the last_success_at the run before this one wrote: none before the first
\* run on an empty data directory
WrittenByRunBefore ==
    IF run.n = 1 THEN Absent
    ELSE out.files[StatePath].data.v[1].last_success_at

\* C23: the state document holds one row that each completed run overwrites:
\* after run n its candidate ids are run n's candidates, its refreshed and
\* failed counts are run n's counters, and its previous_last_success_at is
\* the last_success_at run n-1 wrote (null when there was none); nothing
\* older than that one timestamp is kept.
C23_StateRow ==
    (caller = "rerun" /\ run.pc = "Done") =>
        /\ files[StatePath] =
               Full(StateDoc(run.report.finished_at, run.candidates,
                             run.report.refreshed, Len(run.report.failed),
                             WrittenByRunBefore))
        /\ Len(files[StatePath].data.v) = 1
        /\ run.n = 2 =>
               /\ out.files[StatePath].data.v[1].previous_last_success_at = Absent
               /\ WrittenByRunBefore = out.finishedAt
               /\ files[StatePath].data.v[1].last_success_at > WrittenByRunBefore

\* the second run has overwritten the row of the first with its own
\* candidates and counters
C23_Witness ==
    /\ caller = "rerun"
    /\ run.n = 2
    /\ run.pc = "Done"
    /\ files[StatePath] # out.files[StatePath]
    /\ files[StatePath].data.v[1].previous_last_success_at = out.finishedAt
    /\ files[StatePath].data.v[1].candidate_topic_ids = run.candidates
    /\ files[StatePath].data.v[1].candidate_topic_ids # out.candidates
    /\ files[StatePath].data.v[1].failed_topic_count = 1

\* the detail call was answered with an empty array or with no array
EmptyPayload == ~(IsArray(out.body) /\ Len(out.body.v) > 0)

\* C24: when a detail fetch returns an empty or non-sequence payload the item
\* is a per-item failure without further retry: the request is not repeated,
\* no item document is written or changed for the id, no comments fetch is
\* made for it, the refreshed counter is not incremented and one entry for
\* the id is appended to the failed list.
C24_EmptyPayloadFails ==
    (caller = "main" /\ out.op = "payload" /\ EmptyPayload) =>
        /\ hist.sentTopic = 1
        /\ hist.sentReplies = 0
        /\ wr.pc = "idle"
        /\ files = out.files
        /\ run.report.refreshed = 0
        /\ run.exit = 0
        /\ run.pc # "Detail" =>
               /\ run.pc = "StatePersist"
               /\ Len(run.report.failed) = 1
               /\ run.report.failed[1].topic_id = 1
               /\ run.report.failed[1].error = "Empty topic payload"

\* the detail call of a candidate with a stored item document was answered
\* with an object: the loop is over, the failure is recorded and the stored
\* document is still there
C24_Witness ==
    /\ out.op = "payload"
    /\ out.body = Obj
    /\ run.pc = "StatePersist"
    /\ Len(run.report.failed) = 1
    /\ files[TopicPath(1)] = Full(StoredTopicDoc(1))

\* the page requests of the collector so far, and the last of them
PageAt(i) == out.pages[i]
LastPage == out.pages[Len(out.pages)]

\* pages 1..pagesPerNode of each node in order: after a page with topics the
\* next page of the node, or the first page of the next node when that was
\* the node's last; after an empty page, a payload that is no array or a
\* failed call, the first page of the next node
C25_PagesInOrder ==
    /\ \A i \in 1..Len(out.pages) :
           /\ PageAt(i).node \in 1..out.nodes
           /\ PageAt(i).p \in 1..out.pagesPerNode
    /\ out.pages # <<>> => PageAt(1).node = 1 /\ PageAt(1).p = 1
    /\ \A i \in 1..(Len(out.pages) - 1) :
           IF PageAt(i).got = "items" /\ PageAt(i).p < out.pagesPerNode
           THEN PageAt(i + 1).node = PageAt(i).node /\ PageAt(i + 1).p = PageAt(i).p + 1
           ELSE PageAt(i + 1).node = PageAt(i).node + 1 /\ PageAt(i + 1).p = 1
    /\ (out.pc = "returned" /\ out.pages # <<>> /\ Len(out.set) < out.maxTopics) =>
           /\ LastPage.node = out.nodes
           /\ LastPage.got = "items" => LastPage.p = out.pagesPerNode

\* C25 (as claimed): the collector fetches for each partition only pages
\* 1..pagesPerNode in order, stops a partition at its first page that is
\* empty or no sequence and goes on with the next, and returns at once when
\* the distinct-id set reaches maxTopics: the returned set never holds more
\* than maxTopics ids and no page is fetched after the cap is reached.
C25_Original ==
    out.op = "collect" =>
        /\ C25_PagesInOrder
        /\ Len(out.set) <= out.maxTopics
        /\ \A i \in 1..Len(out.pages) : PageAt(i).size < out.maxTopics

\* C25 (amended): the same with the cap max(1, maxTopics): the cap is only
\* looked at after a topic of a page has been handled, so with maxTopics 0
\* the first non-empty page is still fetched and its first id is returned.
C25_BoundedCollector ==
    out.op = "collect" =>
        /\ C25_PagesInOrder
        /\ Len(out.set) <= Max(1, out.maxTopics)
        /\ \A i \in 1..Len(out.pages) : PageAt(i).size < Max(1, out.maxTopics)
        /\ out.pc \in {"page", "await"} => Len(out.set) < Max(1, out.maxTopics)

\* the collector has returned at the cap of two ids, reached on the second
\* page of the first node
C25_Witness ==
    /\ out.op = "collect"
    /\ out.pc = "returned"
    /\ out.maxTopics = 2
    /\ Len(out.set) = 2
    /\ Len(out.pages) = 2
    /\ LastPage.node = 1
    /\ LastPage.p = 2

\* the comments of the pages received, in page order
RECURSIVE CommentsOfPages(_)
CommentsOfPages(pages) ==
    IF pages = <<>> THEN <<>>
    ELSE PageItemsOf(Head(pages).body) \o CommentsOfPages(Tail(pages))

CommentsOnPage(i) == Len(PageItemsOf(out.pages[i].body))

\* C26: with a token fetchReplies requests the comment pages 1, 2, ... in
\* order, appends each page's items in page order and stops after the first
\* page that is empty or has fewer items than the page size, never
\* requesting more than the page limit; without a token it makes a single
\* call that is not paginated and returns its result as the complete set.
C26_Pagination ==
    (out.op = "fetchReplies" /\ out.pc # "call") =>
        IF out.token
        THEN /\ Len(out.pages) <= MaxReplyPages
             /\ \A i \in 1..Len(out.pages) : out.pages[i].p = i
             /\ \A i \in 1..(Len(out.pages) - 1) : CommentsOnPage(i) = PageSize
             /\ out.all = CommentsOfPages(out.pages)
             /\ hist.calls = Len(out.pages) + (IF out.pc = "await" THEN 1 ELSE 0)
                                            + (IF out.pc = "threw" THEN 1 ELSE 0)
             /\ out.pc = "await" =>
                    /\ net.url = V2RepliesUrl(1, Len(out.pages) + 1)
                    /\ out.pages # <<>> => CommentsOnPage(Len(out.pages)) = PageSize
             /\ out.pc = "returned" =>
                    \/ CommentsOnPage(Len(out.pages)) < PageSize
                    \/ Len(out.pages) = MaxReplyPages
        ELSE /\ hist.calls = 1
             /\ out.pc = "await" => net.url = RepliesUrl(1)
             /\ out.pc = "returned" =>
                    /\ Len(out.pages) = 1
                    /\ out.all = (IF IsArray(out.pages[1].body)
                                  THEN out.pages[1].body.v ELSE <<>>)

\* with a token: a full first page, then a short second one, and both are
\* returned in page order
C26_Witness ==
    /\ out.op = "fetchReplies"
    /\ out.token
    /\ out.pc = "returned"
    /\ Len(out.pages) = 2
    /\ CommentsOnPage(1) = PageSize
    /\ CommentsOnPage(2) = 1
    /\ out.all = PageItems(1, PageSize) \o PageItems(2, 1)

\* the most recent of the timestamps an entry has, 0 when it has none
MostRecentStamp(item) ==
    LET stamps == {x \in {item.last_touched, item.last_modified, item.created} :
                      x # Absent /\ x # NaN}
    IN IF stamps = {} THEN 0
       ELSE CHOOSE x \in stamps : \A y \in stamps : x >= y

\* the first timestamp an entry has, of last_touched, last_modified and
\* created in this order, 0 when it has none
FirstStamp(item) ==
    IF item.last_touched # Absent THEN item.last_touched
    ELSE IF item.last_modified # Absent THEN item.last_modified
    ELSE IF item.created # Absent THEN item.created
    ELSE 0

\* the merge has sorted and pruned by the score: entries whose scores are all
\* numbers are in non-increasing order of it, and an entry survives the prune
\* exactly when its score is no positive number or its age by the score is
\* within the TTL
ScoredBy(Score(_)) ==
    /\ (\A e \in Range(run.merged) : Score(e) # NaN) =>
           \A i, j \in 1..Len(run.merged) :
               i < j => Score(run.merged[i]) >= Score(run.merged[j])
    /\ \A e \in Range(run.merged) :
           e \in Range(run.pruned) <=>
               \/ Score(e) = NaN
               \/ Score(e) <= 0
               \/ run.poolNow - Score(e) * MsPerSec <= cfg.hotPoolTtlDays * DayMs

\* C27 (as claimed): the freshness score of an item, as used for merge
\* tie-breaks, sorting and TTL pruning, is the most recent (the maximum) of
\* its available timestamps last_touched, last_modified and created.
C27_Original ==
    PoolMerged =>
        /\ \A e \in Range(run.merged) : topicFreshness(e) = MostRecentStamp(e)
        /\ ScoredBy(MostRecentStamp)

\* C27 (amended): the freshness score is the first available of last_touched,
\* last_modified and created, in this order, and 0 when there is none: it is
\* the most recent one only when no later field is more recent than the
\* first available one.
C27_FirstAvailableStamp ==
    PoolMerged =>
        /\ \A e \in Range(run.merged) :
               /\ topicFreshness(e) = FirstStamp(e)
               /\ (IsNum(FirstStamp(e)) /\ FirstStamp(e) >= MostRecentStamp(e)) =>
                      topicFreshness(e) = MostRecentStamp(e)
        /\ ScoredBy(FirstStamp)

\* an entry touched two days ago and modified now is pruned under a TTL of
\* one day
C27_Witness ==
    /\ run.pc = "ListNodes"
    /\ cfg.hotPoolTtlDays = 1
    /\ \E e \in Range(run.merged) :
           /\ e.last_touched = TsAgo(2)
           /\ e.last_modified = TsAgo(0)
           /\ e \notin Range(run.pruned)

\* the occurrences of an id in the two inputs of the merge
OccurrencesOf(id) ==
    {e \in Range(out.a \o out.b) : ValidId(e) /\ NumberOf(e.id) = id}

MergedIds == {NumberOf(e.id) : e \in {x \in Range(out.a \o out.b) : ValidId(x)}}

\* C28: when the same id occurs in both inputs of the merge, or several
\* times in one, the merge keeps for the id the occurrence with the higher
\* freshness score: the merged entry's freshness is the maximum over all
\* occurrences of the id: no occurrence has a higher score than the entry
\* kept.
C28_MergeKeepsFreshest ==
    out.op \in {"merged", "capped"} =>
        /\ DistinctIds(out.result)
        /\ {NumberOf(e.id) : e \in Range(out.result)} = MergedIds
        /\ \A e \in Range(out.result) :
               /\ e \in OccurrencesOf(NumberOf(e.id))
               /\ \A o \in OccurrencesOf(NumberOf(e.id)) :
                      /\ ~JsGt(topicFreshness(o), topicFreshness(e))
                      /\ (topicFreshness(o) # NaN /\ topicFreshness(e) # NaN) =>
                             topicFreshness(e) >= topicFreshness(o)

\* topic 1 came three times, scored 2, 1 and 2: the entry kept is the last
\* one scored 2
C28_Witness ==
    /\ out.op = "capped"
    /\ Len(out.a) = 2
    /\ Len(out.b) = 1
    /\ \A e \in Range(out.a \o out.b) : NumberOf(e.id) = 1
    /\ topicFreshness(out.a[1]) = 2
    /\ topicFreshness(out.a[2]) = 1
    /\ topicFreshness(out.b[1]) = 2
    /\ out.b[1] # out.a[1]
    /\ out.result = <<out.b[1]>>

\* no entry stands behind one with a strictly lower freshness score
NonIncreasing(seq) ==
    \A i, j \in 1..Len(seq) :
        i < j => ~JsGt(topicFreshness(seq[j]), topicFreshness(seq[i]))

\* the entries the cap cut off
DroppedByCap == {out.pruned[i] : i \in (Len(out.limited) + 1)..Len(out.pruned)}

PoolOrdered ==
    /\ NonIncreasing(out.limited)
    /\ \A d \in DroppedByCap, k \in Range(out.limited) :
           ~JsGt(topicFreshness(d), topicFreshness(k))

\* C29 (as claimed): the hot pool returned and persisted by every merge is
\* ordered by non-increasing freshness score, and the cap keeps the first
\* entries of that order: no entry dropped by the cap has a strictly higher
\* freshness score than an entry that was kept.
C29_Original == out.op = "capped" => PoolOrdered

\* C29 (amended): the pool is the first max(1, hotPoolLimit) entries of the
\* pruned list in the order the sort left them; when the freshness score of
\* every merged entry is a number this order is non-increasing and no
\* dropped entry has a strictly higher score than a kept one.
C29_SortedWhenNumeric ==
    out.op = "capped" =>
        /\ out.limited = SliceTo(out.pruned, Max(1, cfg.hotPoolLimit))
        /\ (\A e \in Range(out.result) : topicFreshness(e) # NaN) => PoolOrdered

\* three ids scored 1, 2 and 2 in this order: the cap of two entries drops
\* the one scored 1
C29_Witness ==
    /\ out.op = "capped"
    /\ Len(out.a \o out.b) = 3
    /\ topicFreshness(out.a[1]) = 1
    /\ Len(out.pruned) = 3
    /\ Len(out.limited) = 2
    /\ DroppedByCap = {out.a[1]}
    /\ \A k \in Range(out.limited) : topicFreshness(k) = 2

\* the item document the loop read for its candidate was fetched longer ago
\* than the refresh TTL
StaleDoc ==
    /\ DocTopic(run.existingTopicDoc) # <<>>
    /\ IsFinite(DocFetchedAt(run.existingTopicDoc))
    /\ run.now - DocFetchedAt(run.existingTopicDoc) > RefreshTtlMs

\* C30: whenever the age now - fetched_at of the existing item document is
\* greater than the staleness TTL, decideRefreshTopic returns true whatever
\* the list snapshots are: the detail is requested in that run, and unless
\* the item fails the document is replaced by one fetched in this run.
C30_HardStaleness ==
    (caller = "main" /\ Len(run.candidates) = 1 /\ run.visited # <<>> /\ StaleDoc) =>
        /\ run.shouldRefreshTopic
        /\ decideRefreshTopic(run.existingTopicDoc, run.listSnapshot, run.now,
                              RefreshTtlMs)
        /\ run.report.skipped = 0
        /\ run.pc = "Detail" \/ hist.sentTopic >= 1
        /\ (run.pc = "StatePersist" /\ run.report.failed = <<>>) =>
               /\ run.report.refreshed = 1
               /\ files[TopicPath(1)].st = "full"
               /\ files[TopicPath(1)] # Full(run.existingTopicDoc)
               /\ DocFetchedAt(files[TopicPath(1)].data) >= run.now

\* an outdated document whose list snapshot is the one of the lists has been
\* replaced
C30_Witness ==
    /\ run.pc = "StatePersist"
    /\ StaleDoc
    /\ DocSnapshot(run.existingTopicDoc).replies = run.listSnapshot.replies
    /\ DocSnapshot(run.existingTopicDoc).last_modified = run.listSnapshot.last_modified
    /\ run.report.failed = <<>>
    /\ run.report.refreshed = 1
    /\ DocFetchedAt(files[TopicPath(1)].data) >= run.now

\* the comments document the loop read exists and the reply count it
\* remembers is the current reply count of the item (of the refreshed topic
\* after a refresh, of the stored one otherwise)
CountsEqual ==
    /\ run.existingRepliesDoc.t = "replies"
    /\ run.topic # <<>>
    /\ IsNum(DocReplyCount(run.existingRepliesDoc))
    /\ IsNum(run.topic[1].replies)
    /\ DocReplyCount(run.existingRepliesDoc) = run.topic[1].replies

\* the comments document the loop read was fetched longer ago than the
\* refresh TTL
OldComments ==
    /\ run.existingRepliesDoc.t = "replies"
    /\ run.now - run.existingRepliesDoc.v[1].fetched_at > RefreshTtlMs

\* C31 as stated: when a comments document exists and its remembered reply
\* count equals the item's current reply count, no comments request is
\* issued for the item, however old the item and comments documents are.
C31_Original ==
    (caller = "main" /\ Len(run.candidates) = 1 /\ run.visited # <<>>
     /\ run.pc \in {"Replies", "RepliesWrite", "StatePersist"}
     /\ CountsEqual) =>
        hist.sentReplies = 0

\* C31: when the item is not refreshed in the run, a comments document
\* exists and its remembered reply count equals the item's reply count, no
\* comments request is issued and the comments document stays as it is,
\* however old the comments document is.  The age of the item document does
\* matter: an item document older than the refresh TTL is refreshed, and a
\* refreshed item has its comments requested again even when the two counts
\* are equal.
C31_CommentsByVolume ==
    (caller = "main" /\ Len(run.candidates) = 1 /\ run.visited # <<>>) =>
        /\ (~run.shouldRefreshTopic /\ CountsEqual) =>
               /\ run.pc = "StatePersist"
               /\ hist.sentReplies = 0
               /\ files[RepliesPath(1)] = Full(run.existingRepliesDoc)
        /\ (StaleDoc /\ run.pc = "StatePersist" /\ run.report.refreshed = 1) =>
               hist.sentReplies >= 1

\* a skipped item whose comments document is older than the TTL and
\* remembers the item's reply count: nothing was requested
C31_Witness ==
    /\ run.pc = "StatePersist"
    /\ run.report.skipped = 1
    /\ CountsEqual
    /\ OldComments
    /\ hist.sentReplies = 0
    /\ files[RepliesPath(1)] = Full(run.existingRepliesDoc)

\* an outdated item document whose list snapshot has not changed: the item
\* was refreshed and the comments requested although the counts are equal
C31_WitnessStale ==
    /\ run.pc = "StatePersist"
    /\ StaleDoc
    /\ ~DecideSnapshotOnly(run.existingTopicDoc, run.listSnapshot, run.now,
                           RefreshTtlMs)
    /\ CountsEqual
    /\ hist.sentReplies >= 1

\* the candidate-building scan: the latest list, then the merged hot pool
CandidateScan == OrEmpty(run.latest).v \o OrEmpty(run.hotPool).v

\* the candidates are the valid ids of the scan, each once, in the order of
\* their first occurrence in it
ScanOrder ==
    /\ Range(run.candidates) = ValidIdsOf(CandidateScan)
    /\ \A i, j \in 1..Len(run.candidates) :
           i < j => /\ run.candidates[i] # run.candidates[j]
                    /\ FirstAt(CandidateScan, run.candidates[i])
                           < FirstAt(CandidateScan, run.candidates[j])

\* a request or a write for an item is one for the id the loop is at
OnlyCurrentItemBusy ==
    /\ (net.pc # "idle" /\ net.url[1] \in {"topic", "replies"}) =>
           /\ run.pc \in {"Detail", "Replies"}
           /\ net.url[2] = run.candidates[run.idx]
    /\ (wr.pc # "idle" /\ wr.path[1] \in {"topic", "replies"}) =>
           /\ run.pc \in {"DetailWrite", "RepliesWrite"}
           /\ wr.path[2] = run.candidates[run.idx]

C32_InOrder ==
    run.pc \in LoopPcs \cup AfterLoopPcs =>
        /\ ScanOrder
        /\ run.visited =
               SubSeq(run.candidates, 1,
                      IF run.pc = "Item" THEN run.idx - 1
                      ELSE IF run.pc \in AfterLoopPcs THEN Len(run.candidates)
                      ELSE run.idx)
        /\ run.pc \in LoopPcs => OnlyCurrentItemBusy

\* while the loop runs, the documents of an id change only while the loop is
\* at that id, and the loop moves on by one id, with no request and no write
\* of the id it leaves still under way
C32_OneAtATime ==
    run.pc \in LoopPcs =>
        /\ \A id \in TopicIds :
               (\/ files'[TopicPath(id)] # files[TopicPath(id)]
                \/ files'[RepliesPath(id)] # files[RepliesPath(id)]) =>
                   /\ run.idx <= Len(run.candidates)
                   /\ id = run.candidates[run.idx]
        /\ run'.idx # run.idx =>
               /\ run'.idx = run.idx + 1
               /\ net'.pc = "idle"
               /\ wr'.pc = "idle"

\* C32: the candidates are the ids of the latest list followed by the merged
\* hot pool, in the order of their first occurrence in that scan; the loop
\* handles them one at a time in that order and finishes the detail and the
\* comments of one id before it starts the next.
C32_CandidateOrder == []C32_InOrder /\ [][C32_OneAtATime]_vars

\* the pool has topic 2 ahead of topic 1, the latest list has topic 1: the
\* loop has handled 1 and then 2, refreshing both
C32_Witness ==
    /\ run.pc = "StatePersist"
    /\ Len(OrEmpty(run.latest).v) = 1
    /\ Len(run.hotPool.v) = 2
    /\ run.hotPool.v[1].id = 2
    /\ run.hotPool.v[2].id = 1
    /\ run.candidates = <<1, 2>>
    /\ run.visited = <<1, 2>>
    /\ run.report.refreshed = 2

\* the id the loop is at is in the merged hot pool and in neither the latest
\* list nor the hot list of this run
PoolOnly ==
    /\ run.pc \in LoopPcs \ {"Item"}
    /\ \A i \in 1..Len(OrEmpty(run.latest).v) :
           NumberOf(OrEmpty(run.latest).v[i].id) # run.candidates[run.idx]
    /\ \A i \in 1..Len(OrEmpty(run.hot).v) :
           NumberOf(OrEmpty(run.hot).v[i].id) # run.candidates[run.idx]
    /\ run.candidates[run.idx] \in IdsOf(run.hotPool.v)

\* the snapshot a document carries is the one of a topic found on no list
EmptySnapshot(doc) ==
    /\ DocSnapshot(doc).replies = 0
    /\ DocSnapshot(doc).last_modified = 0

\* C33: for a candidate that is only in the hot pool the list snapshot is
\* (reply count 0, last_modified 0) whatever its pool entry carries; an item
\* document that still has the snapshot of a listing is refreshed because of
\* the mismatch and is written with the empty snapshot; one that has the
\* empty snapshot is refreshed only when it is older than the staleness TTL.
C33_PoolOnlySnapshot ==
    (caller = "rerun" /\ PoolOnly) =>
        /\ run.listSnapshot = Snapshot(run.candidates[run.idx], 0, 0)
        /\ (/\ DocTopic(run.existingTopicDoc) # <<>>
            /\ IsFinite(DocFetchedAt(run.existingTopicDoc))) =>
               /\ ~EmptySnapshot(run.existingTopicDoc) => run.shouldRefreshTopic
               /\ EmptySnapshot(run.existingTopicDoc) =>
                      (run.shouldRefreshTopic <=>
                          run.now - DocFetchedAt(run.existingTopicDoc) > RefreshTtlMs)
        /\ (run.shouldRefreshTopic /\ run.pc \in {"Replies", "RepliesWrite"}) =>
               /\ files[TopicPath(run.candidates[run.idx])].st = "full"
               /\ EmptySnapshot(files[TopicPath(run.candidates[run.idx])].data)
               /\ DocFetchedAt(files[TopicPath(run.candidates[run.idx])].data)
                      >= run.now

\* the second run finds topic 2 in the pool only, with the document the
\* first run wrote when it found it in the pool only, and skips it
C33_Witness ==
    /\ run.n = 2
    /\ out.op = "first"
    /\ out.candidates = <<2>>
    /\ 2 \notin IdsOf(OrEmpty(out.latest).v \o OrEmpty(out.hot).v)
    /\ run.pc = "StatePersist"
    /\ run.candidates = <<2>>
    /\ 2 \notin IdsOf(OrEmpty(run.latest).v \o OrEmpty(run.hot).v)
    /\ run.hotPool.v[1].replies = 1
    /\ EmptySnapshot(run.existingTopicDoc)
    /\ DocFetchedAt(run.existingTopicDoc) >= BaseNow
    /\ ~run.shouldRefreshTopic
    /\ run.report.skipped = 1
    /\ hist.sentTopic = 0

\* the first run finds topic 2 in the pool only, with a document fetched a
\* moment ago that has the snapshot of its last listing, and refreshes it
C33_WitnessMismatch ==
    /\ run.n = 1
    /\ run.pc = "StatePersist"
    /\ run.candidates = <<2>>
    /\ 2 \notin IdsOf(OrEmpty(run.latest).v \o OrEmpty(run.hot).v)
    /\ run.now - DocFetchedAt(run.existingTopicDoc) <= RefreshTtlMs
    /\ ~EmptySnapshot(run.existingTopicDoc)
    /\ run.report.refreshed = 1
    /\ EmptySnapshot(files[TopicPath(2)].data)

\* the candidates counted so far in refreshed or in skipped
Counted == run.report.refreshed + run.report.skipped

\* the candidates for which it is settled whether they are counted: the ones
\* the loop has left, and the current one once its comments are under way
Settled ==
    IF run.pc \in AfterLoopPcs THEN Len(run.candidates)
    ELSE IF run.pc \in {"Replies", "RepliesWrite"} THEN run.idx
    ELSE run.idx - 1

C34_Counts ==
    run.pc \in LoopPcs \cup AfterLoopPcs =>
        /\ run.report.candidates = Len(run.candidates)
        /\ FailedIds \subseteq Range(SubSeq(run.candidates, 1, Settled))
        /\ \A i, j \in 1..Len(run.report.failed) :
               run.report.failed[i].topic_id = run.report.failed[j].topic_id
                   => i = j
        /\ Counted <= Settled
        /\ Settled <= Counted + Len(run.report.failed)
        /\ run.pc \in AfterLoopPcs =>
               /\ Counted <= run.report.candidates
               /\ run.report.candidates <= Counted + Len(run.report.failed)

\* one step of the loop: the current id is counted once, as skipped when the
\* loop decides to skip it and as refreshed when its document is written; a
\* failure of the detail fetch or write counts nothing and records the id; a
\* failure of the comments fetch or write records the id that is counted
\* already
C34_Step ==
    (run.pc \in LoopPcs /\ run' # run) =>
        /\ run'.report.candidates = run.report.candidates
        /\ IF run.pc = "Item" /\ ~run'.shouldRefreshTopic
           THEN /\ run'.report.skipped = run.report.skipped + 1
                /\ run'.report.refreshed = run.report.refreshed
           ELSE IF run.pc = "DetailWrite" /\ wr.pc = "ok"
           THEN /\ run'.report.refreshed = run.report.refreshed + 1
                /\ run'.report.skipped = run.report.skipped
                /\ run'.pc = "Replies"
           ELSE /\ run'.report.refreshed = run.report.refreshed
                /\ run'.report.skipped = run.report.skipped
        /\ run'.report.failed # run.report.failed =>
               /\ ItemFails
               /\ run'.report.failed =
                      Append(run.report.failed,
                             [topic_id |-> run.candidates[run.idx],
                              error |-> run'.report.failed[
                                            Len(run'.report.failed)].error])
               /\ run'.idx = run.idx + 1
        /\ ItemFails => Len(run'.report.failed) = Len(run.report.failed) + 1

\* C34: every candidate is counted in exactly one of refreshed or skipped
\* unless its detail fetch or detail write failed, no candidate occurs twice
\* in the failed list, and at the end of the run
\* refreshed + skipped <= candidates <= refreshed + skipped + |failed|; an id
\* whose detail was refreshed and whose comments fetch failed is counted in
\* refreshed and is in the failed list.
C34_ReportCounters == []C34_Counts /\ [][C34_Step]_vars

\* the one candidate was refreshed and its comments fetch failed: it is in
\* refreshed and in failed
C34_Witness ==
    /\ run.pc = "Done"
    /\ run.candidates = <<1>>
    /\ run.shouldRefreshTopic
    /\ run.report.refreshed = 1
    /\ run.report.skipped = 0
    /\ FailedIds = {1}
    /\ run.report.failed[1].error \in AttemptErrors
    /\ hist.sentReplies >= 1

\* of two candidates the first failed at its detail and the second was
\* skipped: one counted, one failed
C34_WitnessDetail ==
    /\ run.pc = "Done"
    /\ Len(run.candidates) = 2
    /\ Counted = 1
    /\ Len(run.report.failed) = 1
    /\ hist.sentReplies = 0

\* the detail fetch of the current id is about to fail: its retries are used
\* up or its payload is empty
DetailFetchFails ==
    /\ run.pc = "Detail"
    /\ \/ net.pc = "err"
       \/ net.pc = "ok" /\ ~(IsArray(net.result) /\ Len(net.result.v) > 0)

\* the comments fetch of the current id is about to fail
CommentsFetchFails == run.pc = "Replies" /\ net.pc = "err"

\* the documents of the current id are the ones the loop read for it
ItemDocAsRead ==
    ReadJson(TopicPath(run.candidates[run.idx]), Null) = run.existingTopicDoc

CommentsDocAsRead ==
    ReadJson(RepliesPath(run.candidates[run.idx]), Null) = run.existingRepliesDoc

\* the item document of the current id is the one this run has written
ItemDocRewritten ==
    LET file == files[TopicPath(run.candidates[run.idx])]
    IN /\ file.st = "full"
       /\ DocTopic(file.data) = run.topic
       /\ DocFetchedAt(file.data) >= run.now

\* a document changes only by the write the loop makes for its id: the item
\* document while the loop is at DetailWrite for it, the comments document
\* while it is at RepliesWrite for it
C35_OnlyOwnWrites ==
    \A id \in TopicIds :
        /\ files'[TopicPath(id)] # files[TopicPath(id)] =>
               /\ run.pc = "DetailWrite"
               /\ id = run.candidates[run.idx]
        /\ files'[RepliesPath(id)] # files[RepliesPath(id)] =>
               /\ run.pc = "RepliesWrite"
               /\ id = run.candidates[run.idx]

\* the step in which a fetch fails: no file changes, no write begins and the
\* loop leaves the id; both documents are as they were read when the detail
\* fetch fails, the comments document is when the comments fetch fails, and
\* the item document then is the rewritten one after a refresh, the one read
\* after a skip
C35_FailStep ==
    /\ (DetailFetchFails /\ run' # run) =>
           /\ files' = files
           /\ wr'.pc = "idle"
           /\ run'.idx = run.idx + 1
           /\ ItemDocAsRead
           /\ CommentsDocAsRead
    /\ (CommentsFetchFails /\ run' # run) =>
           /\ files' = files
           /\ wr'.pc = "idle"
           /\ run'.idx = run.idx + 1
           /\ CommentsDocAsRead
           /\ IF run.shouldRefreshTopic THEN ItemDocRewritten ELSE ItemDocAsRead

\* before the loop reaches an id and while its detail is fetched, its
\* documents are the ones on the disk the run started from
C35_Untouched ==
    (caller = "main" /\ run.pc \in LoopPcs) =>
        \A i \in 1..Len(run.candidates) :
            (i > run.idx \/ (i = run.idx /\ run.pc \in {"Item", "Detail"})) =>
                /\ \E sc \in Scenarios :
                       /\ files[TopicPath(run.candidates[i])]
                              = sc.files[TopicPath(run.candidates[i])]
                       /\ files[RepliesPath(run.candidates[i])]
                              = sc.files[RepliesPath(run.candidates[i])]

\* C35: when the detail fetch of a candidate fails (its retries are used up
\* or the payload is empty) the item document and the comments document of
\* that id are left as they were before the run; when only the comments
\* fetch fails, the rewritten item document stays and the comments document
\* is left unchanged.
C35_FailureKeepsDocs ==
    []C35_Untouched /\ [][C35_OnlyOwnWrites /\ C35_FailStep]_vars

\* the one candidate has stored documents, its refresh was decided and its
\* detail fetch used up its retries: both documents are the stored ones
C35_Witness ==
    /\ run.pc = "StatePersist"
    /\ run.candidates = <<1>>
    /\ run.shouldRefreshTopic
    /\ hist.sentTopic = cfg.retries
    /\ hist.sentReplies = 0
    /\ FailedIds = {1}
    /\ run.report.failed[1].error \in AttemptErrors
    /\ files[TopicPath(1)] = Full(StoredTopicDoc(1))
    /\ files[RepliesPath(1)] = Full(StoredRepliesDoc(1))

\* the comments fetch of a refreshed candidate used up its retries: the item
\* document is the new one, the comments document the stored one
C35_WitnessComments ==
    /\ run.pc = "StatePersist"
    /\ run.candidates = <<1>>
    /\ run.report.refreshed = 1
    /\ hist.sentReplies = cfg.retries
    /\ FailedIds = {1}
    /\ files[TopicPath(1)].st = "full"
    /\ files[TopicPath(1)] # Full(StoredTopicDoc(1))
    /\ files[RepliesPath(1)] = Full(StoredRepliesDoc(1))

\* the run has got as far as StatePersist and past it: finished_at is set
\* there
PastStatePersist ==
    /\ run.report.finished_at # Absent
    /\ run.pc \in {"ReportWrite", "Done", "aborted"}

\* the state document on disk has the last_success_at this run took at
\* StatePersist, later than the one the run found
StateAdvanced ==
    /\ files[StatePath].st = "full"
    /\ files[StatePath].data.t = "state"
    /\ files[StatePath].data.v[1].last_success_at = run.report.finished_at
    /\ files[StatePath].data.v[1].last_success_at >= run.report.started_at
    /\ PreviousSuccess(run.previousState) # Absent =>
           files[StatePath].data.v[1].last_success_at
               > PreviousSuccess(run.previousState)

\* all three lists fell back to what was stored
AllListsFellBack ==
    \A name \in ListNames : run.report.lists[name].status = "fallback"

\* there are candidates and all of them failed
EveryCandidateFailed ==
    /\ run.candidates # <<>>
    /\ FailedIds = Range(run.candidates)

\* C36 as stated: every run that reaches StatePersist advances
\* last_success_at in the state document.
C36_Original == PastStatePersist => StateAdvanced

\* C36: every run that reaches StatePersist and whose write of the state
\* document succeeds advances last_success_at in the state document to the
\* time of StatePersist, also when all three lists fell back and when every
\* candidate failed; a run whose state write fails ends with the state
\* document as it found it.
C36_SuccessStamp ==
    /\ (PastStatePersist /\ run.pc \in {"ReportWrite", "Done"}) => StateAdvanced
    /\ (PastStatePersist /\ run.pc = "aborted" /\ ~StateAdvanced) =>
           /\ ReadJson(StatePath, Obj) = run.previousState
           /\ files[LastRunPath].st = "missing"

\* all three lists fell back, the one candidate failed, and the run has
\* written a state document with a new last_success_at
C36_Witness ==
    /\ run.pc = "Done"
    /\ AllListsFellBack
    /\ EveryCandidateFailed
    /\ run.report.refreshed = 0
    /\ StateAdvanced
    /\ files[StatePath].data.v[1].failed_topic_count = 1

\* the backfill script is running or has exited and sync has not begun
BackfillPhase == caller = "backfill" /\ out.pc # "sync"

\* the item document the sync loop read for the id it is at is one the
\* backfill run wrote: it is not the document that was there before backfill
ReadBackfillDoc ==
    /\ caller = "backfill"
    /\ out.pc = "sync"
    /\ run.pc \in LoopPcs \ {"Item"}
    /\ run.existingTopicDoc.t = "doc"
    /\ Full(run.existingTopicDoc) # out.before[TopicPath(run.candidates[run.idx])]

\* C37: the backfill run never rewrites an existing item document unless
\* forceRefresh is set; an item document written by backfill carries no list
\* snapshot; and the first sync run in which such an id is a candidate decides
\* to refresh it, also when the document was fetched within the staleness
\* TTL.
C37_BackfillThenSync ==
    /\ BackfillPhase =>
           \A id \in TopicIds :
               /\ (~out.forceRefresh /\ out.before[TopicPath(id)].st = "full") =>
                      files[TopicPath(id)] = out.before[TopicPath(id)]
               /\ files[TopicPath(id)] # out.before[TopicPath(id)] =>
                      /\ files[TopicPath(id)].st = "full"
                      /\ DocTopic(files[TopicPath(id)].data) # <<>>
                      /\ files[TopicPath(id)].data.v[1].list_snapshot = <<>>
                      /\ id \in Range(SubSeq(out.candidates, 1,
                                             IF out.idx <= Len(out.candidates)
                                             THEN out.idx
                                             ELSE Len(out.candidates)))
    /\ ReadBackfillDoc =>
           /\ run.existingTopicDoc.v[1].list_snapshot = <<>>
           /\ run.shouldRefreshTopic
           /\ decideRefreshTopic(run.existingTopicDoc, run.listSnapshot, run.now,
                                 RefreshTtlMs)

\* backfill fetched topic 1, which had no document; a moment later the sync
\* run finds it in the latest list, reads the backfill document, well within
\* the TTL, and has refreshed it: the document now has a list snapshot
C37_Witness ==
    /\ caller = "backfill"
    /\ out.pc = "sync"
    /\ ~out.forceRefresh
    /\ out.before[TopicPath(1)] = Missing
    /\ run.pc = "StatePersist"
    /\ run.candidates = <<1>>
    /\ run.existingTopicDoc.t = "doc"
    /\ run.existingTopicDoc.v[1].list_snapshot = <<>>
    /\ run.now - DocFetchedAt(run.existingTopicDoc) <= RefreshTtlMs
    /\ run.report.refreshed = 1
    /\ files[TopicPath(1)].st = "full"
    /\ files[TopicPath(1)].data.v[1].list_snapshot # <<>>

\* backfill without forceRefresh has gone through a topic whose document an
\* earlier sync run had written: it skipped the detail and the document is
\* the same
C37_WitnessKept ==
    /\ caller = "backfill"
    /\ out.pc = "exited"
    /\ ~out.forceRefresh
    /\ out.before[TopicPath(1)] = Full(StoredTopicDoc(1))
    /\ out.report.topic_detail_skipped = 1
    /\ files[TopicPath(1)] = Full(StoredTopicDoc(1))

\* with forceRefresh backfill has rewritten the document of an earlier sync
\* run, without a list snapshot
C37_WitnessForced ==
    /\ caller = "backfill"
    /\ out.pc = "exited"
    /\ out.forceRefresh
    /\ out.before[TopicPath(1)] = Full(StoredTopicDoc(1))
    /\ files[TopicPath(1)].st = "full"
    /\ files[TopicPath(1)].data.v[1].list_snapshot = <<>>

====
